---- MODULE Spec2Model ----
(***************************************************************************)
(* Trace-correlated structured logging of the backend template.           *)
(*                                                                         *)
(* The model follows src/src/logger.ts (caller resolver, mixin, logger     *)
(* configuration, LoggerFactory, child loggers, logWithTrace) and          *)
(* src/src/observability.ts (getTraceContext, shutdownOTel).  The pino     *)
(* sink is modelled by what the code relies on: a logger instance keeps    *)
(* the options it was built with, a log method below the instance's level  *)
(* is a no-op, the mixin runs once per emitted record, and a child adds    *)
(* its bindings to every record without touching its parent.               *)
(***************************************************************************)
EXTENDS Integers, Sequences, FiniteSets, TLC

(***************************************************************************)
(* Bounds of the model.                                                    *)
(***************************************************************************)
MaxInstances == 3     \* pino instances ever constructed
MaxChildren == 2      \* child loggers ever derived
MaxCalls == 3         \* shutdownOTel calls ever started
MaxEnvChanges == 1    \* changes made to process.env after module load
MaxInits == 2         \* initializeOTel calls ever made
MaxFrames == 3        \* stack lines after the three that getCallerInfo skips
MaxRequests == 3      \* requests ever served
MaxLogs == 2          \* log calls a request handler makes

(***************************************************************************)
(* Values.                                                                 *)
(***************************************************************************)
UNSET == "<unset>"                    \* an environment variable that is not set
ABSENT == "<absent>"                  \* JavaScript undefined as a return value
NoFields == <<>>                      \* the empty mapping {}

LogLevelValues == {UNSET, "error"}
IncludeLocationValues == {UNSET, "false"}
ServiceNameValues == {UNSET, "svc"}

EnvKeys == {"LOG_LEVEL", "LOG_INCLUDE_LOCATION", "OTEL_SERVICE_NAME"}

EnvValues(k) ==
  CASE k = "LOG_LEVEL" -> LogLevelValues
    [] k = "LOG_INCLUDE_LOCATION" -> IncludeLocationValues
    [] k = "OTEL_SERVICE_NAME" -> ServiceNameValues

\* the variables read by observability.ts and index.ts and by the service
\* identity of the logger bindings
AppEnvKeys == {"OTEL_TRACING_ENABLED", "OTEL_CONSOLE_EXPORTER",
               "OTEL_EXPORTER_OTLP_TRACES_ENDPOINT", "NODE_ENV", "PORT",
               "npm_package_name", "OTEL_SERVICE_VERSION", "npm_package_version"}
AllEnvKeys == EnvKeys \cup AppEnvKeys

\* process.env with none of the variables set
EmptyEnv == [k \in AllEnvKeys |-> UNSET]

\* e with the variables of `over` set as `over` says
With(e, over) == [k \in AllEnvKeys |-> IF k \in DOMAIN over THEN over[k] ELSE e[k]]

\* the environments the logger module is loaded in
Envs == {With(EmptyEnv, e) :
           e \in {f \in [EnvKeys -> LogLevelValues \cup IncludeLocationValues
                                      \cup ServiceNameValues] :
                     \A k \in EnvKeys : f[k] \in EnvValues(k)}}

\* JavaScript `a || b` on an optional string: unset and "" are both falsy.
OrElse(a, b) == IF a = UNSET \/ a = "" THEN b ELSE a

(***************************************************************************)
(* The tracing API as the logger sees it (@opentelemetry/api `trace`).     *)
(***************************************************************************)
NoSpan == [kind |-> "none", traceId |-> ABSENT, spanId |-> ABSENT]
ActiveSpan(t, s) == [kind |-> "span", traceId |-> t, spanId |-> s]
\* failure modes exercised by tests/unit/error-handling.test.ts:349-403
GetActiveSpanThrows == [kind |-> "getThrows", traceId |-> ABSENT, spanId |-> ABSENT]
SpanContextThrows == [kind |-> "ctxThrows", traceId |-> ABSENT, spanId |-> ABSENT]

Spans == {ActiveSpan("abcd1234", "ef56"),
          ActiveSpan("00000000000000000000000000000000", "0000000000000000")}
TraceFailures == {GetActiveSpanThrows, SpanContextThrows}
TraceStates == {NoSpan} \cup Spans \cup TraceFailures

\* The body of the try block of getTraceContext: trace.getActiveSpan(),
\* then activeSpan.spanContext() and the read of its two identifiers.  It
\* returns the pair, falls through (no active span) or raises.
TraceQuery(api) ==
  CASE api.kind = "span" ->
         [kind |-> "return", traceId |-> api.traceId, spanId |-> api.spanId]
    [] api.kind = "none" ->
         [kind |-> "fallthrough", traceId |-> ABSENT, spanId |-> ABSENT]
    [] api.kind \in {"getThrows", "ctxThrows"} ->
         [kind |-> "throw", traceId |-> ABSENT, spanId |-> ABSENT]

\* A variant without the catch clause: the exception leaves the function.
getTraceContextNoCatch(api) ==
  LET r == TraceQuery(api) IN
  [present |-> r.kind = "return", traceId |-> r.traceId, spanId |-> r.spanId,
   threw |-> r.kind = "throw"]

\* getTraceContext(): the identifiers of the active span, or absent; the
\* catch clause swallows every exception and the function returns absent.
getTraceContext(api) ==
  LET r == TraceQuery(api) IN
  [present |-> r.kind = "return", traceId |-> r.traceId, spanId |-> r.spanId,
   threw |-> FALSE]

(***************************************************************************)
(* Stack frames.  A line of Error().stack is described by what the         *)
(* resolver looks at: the two markers, the location pattern it matches     *)
(* and the path (split at '/') and line number of the location.            *)
(***************************************************************************)
Line(nm, pn, form, path, ln) ==
  [node_modules |-> nm, pino |-> pn, form |-> form, path |-> path, line |-> ln]

ErrorLine == Line(FALSE, FALSE, "none", <<>>, "")
GetCallerInfoFrame == Line(FALSE, FALSE, "paren", <<"", "app", "src", "logger.ts">>, "28")
CreateLogMixinFrame == Line(FALSE, FALSE, "paren", <<"", "app", "src", "logger.ts">>, "68")
MixinArrowFrame == Line(FALSE, FALSE, "paren", <<"", "app", "src", "logger.ts">>, "111")
PinoWriteFrame ==
  Line(TRUE, TRUE, "paren", <<"", "app", "node_modules", "pino", "lib", "proto.js">>, "210")
PinoLogFrame ==
  Line(TRUE, TRUE, "paren", <<"", "app", "node_modules", "pino", "lib", "tools.js">>, "62")
LogWithTraceFrame == Line(FALSE, FALSE, "paren", <<"", "app", "src", "logger.ts">>, "208")

\* application call sites of the log methods (src/src/index.ts)
CallSites == {Line(FALSE, FALSE, "paren", <<"", "app", "src", "index.ts">>, "24"),
              Line(FALSE, FALSE, "at", <<"", "app", "src", "index.ts">>, "104")}

\* The stack seen by getCallerInfo when a log method of a pino logger is
\* called from `site`: new Error() inside getCallerInfo, called by
\* createLogMixin, called by the mixin arrow of createLoggerConfig, called
\* by pino's write path, called by the application.
LoggerCallStack(site) ==
  <<ErrorLine, GetCallerInfoFrame, CreateLogMixinFrame, MixinArrowFrame,
    PinoWriteFrame, PinoLogFrame, site>>

\* The same on a runtime that makes the call in tail position of the mixin
\* arrow (`() => createLogMixin(includeLocation)`, strict mode) a proper
\* tail call: the arrow has no line of its own.
LoggerCallStackTail(site) ==
  <<ErrorLine, GetCallerInfoFrame, CreateLogMixinFrame,
    PinoWriteFrame, PinoLogFrame, site>>

\* how the runtime lays out the stack of a log call
StackLayouts == {"frames", "tail"}
LoggerCallStackIn(layout, site) ==
  IF layout = "tail" THEN LoggerCallStackTail(site) ELSE LoggerCallStack(site)

\* The same when the log method is called by logWithTrace.
LogWithTraceStack(site) ==
  <<ErrorLine, GetCallerInfoFrame, CreateLogMixinFrame, MixinArrowFrame,
    PinoWriteFrame, PinoLogFrame, LogWithTraceFrame, site>>

\* createLogMixin called directly by application or test code.
DirectMixinStack(site) ==
  <<ErrorLine, GetCallerInfoFrame, CreateLogMixinFrame, site>>

\* parseFileName(filePath)
parseFileName(path) ==
  IF Len(path) = 0 THEN "unknown"
  ELSE IF path[Len(path)] = "" THEN "unknown" ELSE path[Len(path)]

\* The loop of getCallerInfo from index i on (0-based, as in the code):
\* the first line that is not empty, carries neither marker and matches
\* one of the two location patterns gives "<fileName>:<lineNum>".
RECURSIVE ScanFrom(_, _)
ScanFrom(lines, i) ==
  IF i >= Len(lines) THEN ABSENT
  ELSE LET line == lines[i + 1] IN
       IF line.form # "empty" /\ ~line.node_modules /\ ~line.pino
          /\ line.form \in {"paren", "at"}
         THEN parseFileName(line.path) \o ":" \o line.line
         ELSE ScanFrom(lines, i + 1)

\* lines a stack may hold besides the frames above: an empty line, a line
\* without a location, a location whose path ends in '/'
EmptyLine == Line(FALSE, FALSE, "empty", <<>>, "")
NoLocationLine == Line(FALSE, FALSE, "none", <<>>, "")
SlashPathLine == Line(FALSE, FALSE, "at", <<"", "app", "src", "">>, "12")
FrameKinds == CallSites \cup {PinoWriteFrame, EmptyLine, NoLocationLine, SlashPathLine}

\* sequences of at most n lines
RECURSIVE LinesUpTo(_)
LinesUpTo(n) ==
  IF n = 0 THEN {<<>>}
  ELSE LET shorter == LinesUpTo(n - 1) IN
       shorter \cup {Append(t, f) : t \in {u \in shorter : Len(u) = n - 1},
                                   f \in FrameKinds}

\* A captured stack: `avail` is FALSE when new Error().stack is undefined.
Stack(lines) == [avail |-> TRUE, lines |-> lines]
NoStack == [avail |-> FALSE, lines |-> <<>>]

\* getCallerInfo()
getCallerInfo(stack) ==
  IF ~stack.avail THEN ABSENT ELSE ScanFrom(stack.lines, 3)

\* the span context the tracing API marks invalid: all-zero identifiers
InvalidSpan == ActiveSpan("00000000000000000000000000000000", "0000000000000000")

\* A variant that treats an invalid span context as no trace.
createLogMixinValidOnly(includeLocation, api, stack) ==
  LET traceContext == getTraceContext(api)
      traceData == IF traceContext.present /\ api # InvalidSpan
                     THEN [trace_id |-> traceContext.traceId,
                           span_id |-> traceContext.spanId]
                     ELSE NoFields
      caller == IF includeLocation THEN getCallerInfo(stack) ELSE ABSENT
      callerData == IF includeLocation /\ caller # ABSENT /\ caller # ""
                      THEN [caller |-> caller]
                      ELSE NoFields
  IN [threw |-> traceContext.threw, fields |-> callerData @@ traceData]

\* A variant that reports "no trace" with empty identifiers.
createLogMixinSentinel(includeLocation, api, stack) ==
  LET traceContext == getTraceContext(api)
      traceData == IF traceContext.present
                     THEN [trace_id |-> traceContext.traceId,
                           span_id |-> traceContext.spanId]
                     ELSE [trace_id |-> "", span_id |-> ""]
      caller == IF includeLocation THEN getCallerInfo(stack) ELSE ABSENT
      callerData == IF includeLocation /\ caller # ABSENT /\ caller # ""
                      THEN [caller |-> caller]
                      ELSE NoFields
  IN [threw |-> traceContext.threw, fields |-> callerData @@ traceData]

\* A variant that assigns the identifiers without testing the context.
createLogMixinAlwaysKeys(includeLocation, api, stack) ==
  LET traceContext == getTraceContext(api)
      traceData == [trace_id |-> traceContext.traceId,
                    span_id |-> traceContext.spanId]
      caller == IF includeLocation THEN getCallerInfo(stack) ELSE ABSENT
      callerData == IF includeLocation /\ caller # ABSENT /\ caller # ""
                      THEN [caller |-> caller]
                      ELSE NoFields
  IN [threw |-> traceContext.threw, fields |-> callerData @@ traceData]

\* createLogMixin(includeLocation): the fields the mixin adds to a record,
\* resolved from the tracing API and the stack at the moment of the call.
\* `threw` tells that an exception left the function.
createLogMixin(includeLocation, api, stack) ==
  LET traceContext == getTraceContext(api)
      traceData == IF traceContext.present
                     THEN [trace_id |-> traceContext.traceId,
                           span_id |-> traceContext.spanId]
                     ELSE NoFields
      caller == IF includeLocation THEN getCallerInfo(stack) ELSE ABSENT
      callerData == IF includeLocation /\ caller # ABSENT /\ caller # ""
                      THEN [caller |-> caller]
                      ELSE NoFields
  IN [threw |-> traceContext.threw, fields |-> callerData @@ traceData]

(***************************************************************************)
(* Logger configuration and instances.                                     *)
(***************************************************************************)
\* A variant that disables the caller location on "0" instead of "false".
createLoggerConfigZero(e) ==
  [level |-> OrElse(e["LOG_LEVEL"], "info"),
   includeLocation |-> e["LOG_INCLUDE_LOCATION"] # "0",
   source |-> e]

\* createLoggerConfig(env = process.env): the level and the includeLocation
\* flag closed over by the mixin are computed at once; the bindings
\* formatter closes over `env` itself, so the service name is read when
\* pino runs the formatter, at construction of the instance.  (The
\* transport chosen by NODE_ENV only changes how a record is printed.)
\* `source` remembers the environment the configuration was made from.
createLoggerConfig(e) ==
  [level |-> OrElse(e["LOG_LEVEL"], "info"),
   includeLocation |-> e["LOG_INCLUDE_LOCATION"] # "false",
   source |-> e]

\* formatters.bindings of createLoggerConfig
bindings(e) ==
  [pid |-> "pid", hostname |-> "host",
   service |-> OrElse(e["OTEL_SERVICE_NAME"],
                      OrElse(e["npm_package_name"], "ts-backend-template")),
   version |-> OrElse(e["OTEL_SERVICE_VERSION"],
                      OrElse(e["npm_package_version"], "1.0.0"))]

\* pino(loggerConfig): a new instance; `builtFrom` remembers the process
\* environment at construction and `config` the options object used.
Pino(config, e) ==
  [level |-> config.level,
   includeLocation |-> config.includeLocation,
   base |-> bindings(e),
   config |-> config,
   builtFrom |-> e]

NoConfig == [level |-> ABSENT, includeLocation |-> FALSE,
             source |-> EmptyEnv]

\* createLogger(config?): config || createLoggerConfig()
createLogger(config, e) ==
  Pino(IF config = NoConfig THEN createLoggerConfig(e) ELSE config, e)

(***************************************************************************)
(* Tracing set-up (observability.ts).                                      *)
(***************************************************************************)
TracingEnabledValues == {UNSET, "false", "true", "FALSE", "0", ""}
ConsoleExporterValues == {UNSET, "true"}
OtlpEndpointValues == {UNSET, "", "http://collector:4318/v1/traces"}
NodeEnvValues == {UNSET, "development", "production"}

\* A variant that reads the flag without regard to case.
getOTelConfigLoose(e) ==
  [serviceName |-> OrElse(e["OTEL_SERVICE_NAME"],
                          OrElse(e["npm_package_name"], "ts-backend-template")),
   serviceVersion |-> OrElse(e["OTEL_SERVICE_VERSION"],
                             OrElse(e["npm_package_version"], "1.0.0")),
   environment |-> OrElse(e["NODE_ENV"], "development"),
   otlpEndpoint |-> e["OTEL_EXPORTER_OTLP_TRACES_ENDPOINT"],
   enableTracing |-> e["OTEL_TRACING_ENABLED"] \notin {"false", "FALSE"},
   consoleExporter |-> e["OTEL_CONSOLE_EXPORTER"] = "true"
                         \/ e["NODE_ENV"] = "development"]

\* getOTelConfig()
getOTelConfig(e) ==
  [serviceName |-> OrElse(e["OTEL_SERVICE_NAME"],
                          OrElse(e["npm_package_name"], "ts-backend-template")),
   serviceVersion |-> OrElse(e["OTEL_SERVICE_VERSION"],
                             OrElse(e["npm_package_version"], "1.0.0")),
   environment |-> OrElse(e["NODE_ENV"], "development"),
   otlpEndpoint |-> e["OTEL_EXPORTER_OTLP_TRACES_ENDPOINT"],
   enableTracing |-> e["OTEL_TRACING_ENABLED"] # "false",
   consoleExporter |-> e["OTEL_CONSOLE_EXPORTER"] = "true"
                         \/ e["NODE_ENV"] = "development"]

LogTracingDisabled == "OpenTelemetry tracing disabled via OTEL_TRACING_ENABLED=false"
LogNoExporters ==
  "No OpenTelemetry exporters configured, falling back to console exporter"
LogInitialized(config) ==
  "OpenTelemetry initialized for service: " \o config.serviceName \o "@"
    \o config.serviceVersion
LogInitFailed == "Failed to initialize OpenTelemetry:"

NoResource == [name |-> ABSENT, version |-> ABSENT, environment |-> ABSENT]
\* outcomes of sdk.start()
StartOutcomes == {"ok", "throws"}

\* A variant without the try around sdk.start().
initializeOTelNoCatch(e, startOutcome) ==
  LET config == getOTelConfig(e)
      resource == [name |-> config.serviceName, version |-> config.serviceVersion,
                   environment |-> config.environment]
  IN IF ~config.enableTracing
       THEN [sdk |-> "null", startCalled |-> FALSE, threw |-> FALSE,
             lines |-> <<LogTracingDisabled>>,
             exporters |-> <<>>, resource |-> NoResource]
     ELSE [sdk |-> IF startOutcome = "ok" THEN "sdk" ELSE "null",
           startCalled |-> TRUE, threw |-> startOutcome # "ok",
           lines |-> IF startOutcome = "ok" THEN <<LogInitialized(config)>> ELSE <<>>,
           exporters |-> <<"console">>, resource |-> resource]

\* A variant without the fallback exporter.
initializeOTelNoFallback(e, startOutcome) ==
  LET config == getOTelConfig(e)
      spanExporters ==
        (IF config.consoleExporter THEN <<"console">> ELSE <<>>)
          \o (IF OrElse(config.otlpEndpoint, UNSET) # UNSET THEN <<"otlp">> ELSE <<>>)
      resource == [name |-> config.serviceName, version |-> config.serviceVersion,
                   environment |-> config.environment]
  IN IF ~config.enableTracing
       THEN [sdk |-> "null", startCalled |-> FALSE, threw |-> FALSE,
             lines |-> <<LogTracingDisabled>>,
             exporters |-> <<>>, resource |-> NoResource]
     ELSE [sdk |-> IF startOutcome = "ok" THEN "sdk" ELSE "null",
           startCalled |-> TRUE, threw |-> FALSE,
           lines |-> <<IF startOutcome = "ok" THEN LogInitialized(config)
                       ELSE LogInitFailed>>,
           exporters |-> spanExporters, resource |-> resource]

\* A variant that starts the SDK whatever OTEL_TRACING_ENABLED says.
initializeOTelIgnoresFlag(e, startOutcome) ==
  LET config == getOTelConfig(e) IN
  [sdk |-> IF startOutcome = "ok" THEN "sdk" ELSE "null",
   startCalled |-> TRUE, threw |-> FALSE,
   lines |-> <<IF startOutcome = "ok" THEN LogInitialized(config) ELSE LogInitFailed>>,
   exporters |-> <<"console">>,
   resource |-> [name |-> config.serviceName, version |-> config.serviceVersion,
                 environment |-> config.environment]]

\* initializeOTel(): the handle returned ("null" for null), whether
\* sdk.start() was called, whether the call threw, the console lines
\* written, the span exporters and the resource given to the SDK.
initializeOTel(e, startOutcome) ==
  LET config == getOTelConfig(e)
      configured ==
        (IF config.consoleExporter THEN <<"console">> ELSE <<>>)
          \o (IF OrElse(config.otlpEndpoint, UNSET) # UNSET THEN <<"otlp">> ELSE <<>>)
      fallback == Len(configured) = 0
      spanExporters == IF fallback THEN <<"console">> ELSE configured
      warning == IF fallback THEN <<LogNoExporters>> ELSE <<>>
      resource == [name |-> config.serviceName, version |-> config.serviceVersion,
                   environment |-> config.environment]
  IN IF ~config.enableTracing
       THEN [sdk |-> "null", startCalled |-> FALSE, threw |-> FALSE,
             lines |-> <<LogTracingDisabled>>,
             exporters |-> <<>>, resource |-> NoResource]
     ELSE IF startOutcome = "ok"
       THEN [sdk |-> "sdk", startCalled |-> TRUE, threw |-> FALSE,
             lines |-> warning \o <<LogInitialized(config)>>,
             exporters |-> spanExporters, resource |-> resource]
     ELSE [sdk |-> "null", startCalled |-> TRUE, threw |-> FALSE,
           lines |-> warning \o <<LogInitFailed>>,
           exporters |-> spanExporters, resource |-> resource]

\* The tracing state of the process: `startCalled` tells that some call of
\* initializeOTel reached sdk.start() (which registers the SDK with the
\* tracing API), `disabledRan` that some call ran with OTEL_TRACING_ENABLED
\* "false" and `enabledRan` that some call ran with another value; `last`
\* is the last call, the environment it ran in (`envAt`) and the outcome of
\* sdk.start() it met.
NoInit == [sdk |-> "null", startCalled |-> FALSE, threw |-> FALSE, lines |-> <<>>,
           exporters |-> <<>>, resource |-> NoResource]
NoOTel == [calls |-> 0, startCalled |-> FALSE, disabledRan |-> FALSE,
           enabledRan |-> FALSE, last |-> NoInit, envAt |-> EmptyEnv, startOutcome |-> "ok"]

\* the tracing state after one more call of initializeOTel
AfterInit(o, e, startOutcome) ==
  LET r == initializeOTel(e, startOutcome) IN
  [calls |-> o.calls + 1,
   startCalled |-> o.startCalled \/ r.startCalled,
   disabledRan |-> o.disabledRan \/ e["OTEL_TRACING_ENABLED"] = "false",
   enabledRan |-> o.enabledRan \/ e["OTEL_TRACING_ENABLED"] # "false",
   last |-> r, envAt |-> e, startOutcome |-> startOutcome]

LogMethods == {"debug", "info", "warn", "error"}

\* pino's numeric levels
LevelVal(l) ==
  CASE l = "debug" -> 20
    [] l = "info" -> 30
    [] l = "warn" -> 40
    [] l = "error" -> 50

\* data bags passed by callers; NoFields is a call without a data argument
DataBags == {NoFields, [userId |-> "u1"]}
\* contexts passed to createChildLogger
Contexts == {[request_id |-> "abc"], [request_id |-> "r2", method |-> "GET"]}

VARIABLES
  env,                  \* process.env
  envChanges,           \* number of changes made to process.env so far
  traceApi,             \* what trace.getActiveSpan() answers right now
  loggers,              \* the pino instances constructed so far
  children,             \* the child loggers derived from `logger`
  globalLoggerFactory,  \* the module's LoggerFactory
  factory,              \* a LoggerFactory constructed by the application
  lastCall,             \* the last call of the logger module and what it wrote
  lastGet,              \* what getLogger() last returned, per factory
  mixinOut,             \* the last direct createLogMixin call and its result
  calls,                \* the shutdownOTel calls made so far
  console,              \* console output of shutdownOTel
  otel,                 \* the tracing SDK and the last initializeOTel call
  app,                  \* the module state of index.ts and its last operation
  http,                 \* the requests served: identifiers issued, last responses
  callerOut,            \* the last caller resolution: its stack and its result
  handlers,             \* the request handlers in flight and the one running
  sink                  \* the records the handlers wrote, in order of arrival

vars == <<env, envChanges, traceApi, loggers, children, globalLoggerFactory,
          factory, lastCall, lastGet, mixinOut, calls, console, otel, app, http,
          callerOut, handlers, sink>>

logVars == <<env, envChanges, traceApi, loggers, children, globalLoggerFactory,
             factory, lastCall, lastGet>>
shutdownVars == <<calls, console>>
appVars == <<otel, app, http, callerOut>>
orderVars == <<handlers, sink>>

\* `logger`: the instance exported by the module, built at module load
logger == 1

\* a LoggerFactory: _logger is 0 for null, else the index of the instance
NewFactory(config) == [exists |-> TRUE, _logger |-> 0, _config |-> config]
NoFactory == [exists |-> FALSE, _logger |-> 0, _config |-> NoConfig]

\* a record as written to the sink: its level and its fields
Record(level, fields) == [level |-> level, fields |-> fields]
NoRecord == Record("", NoFields)

\* What is remembered of a call: the operation, the level asked for, the
\* logger called, the moment of the call (tracing API, whether a stack was
\* available, number of changes of the environment so far), the number of
\* records it wrote, whether it threw, and the record.
Outcome(op, level, v, stackAvail, r) ==
  [op |-> op, level |-> level, by |-> v, at |-> traceApi,
   stackAvail |-> stackAvail, envChangesAt |-> envChanges,
   emitted |-> r.emitted, threw |-> r.threw, record |-> r.record]
NoOutcome == [emitted |-> 0, threw |-> FALSE, record |-> NoRecord]
NoCall ==
  [op |-> "none", level |-> "", by |-> [inst |-> 0, child |-> 0], at |-> NoSpan,
   stackAvail |-> FALSE, envChangesAt |-> 0,
   emitted |-> 0, threw |-> FALSE, record |-> NoRecord]
NoMixinOut == [called |-> FALSE, includeLocation |-> FALSE, api |-> NoSpan,
               stackAvail |-> FALSE, tracingOff |-> FALSE, threw |-> FALSE,
               result |-> NoFields]

NoCallerOut == [op |-> "none", site |-> ErrorLine, layout |-> "", stack |-> NoStack,
                result |-> ABSENT]

\* index.ts: `loaded` once the module has been evaluated, `sdk` its
\* constant of that name, `op` the last operation called with its argument
\* `arg` in the environment `envAt`, `trail` what that operation did, in
\* order, `shutdowns` the number of handleShutdown calls so far, `signals`
\* the signal handlers started (each with the shutdownOTel calls it awaits)
\* and `exit` the call of process.exit, once made, with the handler `by`
\* that made it.
NoExit == [exited |-> FALSE, code |-> 0, by |-> 0]
NoApp == [loaded |-> FALSE, sdk |-> "null", op |-> "none", arg |-> "",
          envAt |-> EmptyEnv, trail |-> <<>>, shutdowns |-> 0,
          signals |-> <<>>, exit |-> NoExit]
\* What a route handler may throw (routes added to the exported app, as the
\* tests do): an Error with a message or a value that is no Error, with
\* the code the framework gives it.
NoFault == [thrown |-> FALSE, isError |-> FALSE, message |-> "", code |-> ""]
Fault(isError, message, code) ==
  [thrown |-> TRUE, isError |-> isError, message |-> message, code |-> code]

\* The server: `served` counts the requests handled (and the identifiers
\* randomUUID has issued), `last` and `prev` are the last two exchanges;
\* `failing` of an exchange names the hook whose log call threw, if any.
NoExchange == [request |-> [method |-> "", path |-> "", userAgent |-> "",
                            fault |-> NoFault],
               requestId |-> 0, envAt |-> EmptyEnv, status |-> 0,
               headers |-> <<>>, body |-> <<>>, trail |-> <<>>, failing |-> "none"]
NoHttp == [served |-> 0, last |-> NoExchange, prev |-> NoExchange]

\* Request handlers in flight.  The process runs one of them at a time
\* (`running`, 0 for none); each has its own asynchronous context, whose
\* active span is `span`, has made `pc` log calls so far and holds in
\* `got` what getLogger() of the module and of the application's factory
\* last returned to it (0 for no call yet).
Handlers == {1, 2}
NoHandlers ==
  [running |-> 0,
   of |-> [h \in Handlers |-> [pc |-> 0, span |-> NoSpan,
                               got |-> [global |-> 0, app |-> 0]]]]

Init ==
  /\ env \in Envs
  /\ envChanges = 0
  /\ traceApi = NoSpan
  /\ loggers = <<createLogger(NoConfig, env)>>
  /\ children = <<>>
  /\ globalLoggerFactory = [exists |-> TRUE, _logger |-> logger, _config |-> NoConfig]
  /\ factory = NoFactory
  /\ lastCall = NoCall
  /\ lastGet = [global |-> logger, app |-> 0, beforeReset |-> 0]
  /\ mixinOut = NoMixinOut
  /\ calls = <<>>
  /\ console = <<>>
  /\ otel = NoOTel
  /\ app = NoApp
  /\ http = NoHttp
  /\ callerOut = NoCallerOut
  /\ handlers = NoHandlers
  /\ sink = <<>>

(***************************************************************************)
(* Operations of the logger module.                                        *)
(***************************************************************************)
\* a logger the application can call: an instance (child = 0) or a child
View(i, c) == [inst |-> i, child |-> c]
Views ==
  {View(i, 0) : i \in 1..Len(loggers)}
    \cup {View(children[c].parent, c) : c \in 1..Len(children)}

\* A variant that hands the context to the bindings formatter of the
\* parent, which keeps pid, hostname and service only.
childFormatted(parent, context) ==
  [parent |-> parent, context |-> context, bindings |-> NoFields]

\* logger.child(context): a view with the context bound; the parent is
\* left as it is.  `context` remembers the argument of the call, `bindings`
\* is what the child adds to its records.
child(parent, context) ==
  [parent |-> parent, context |-> context, bindings |-> context]

\* The bindings a logger adds to each of its records.
ViewBindings(v) ==
  IF v.child = 0 THEN loggers[v.inst].base
  ELSE children[v.child].bindings @@ loggers[v.inst].base

\* A variant whose mixin was resolved once, when the instance was built
\* (no span is active at module load).
PinoLogCachedTrace(v, method, data, stack) ==
  LET inst == loggers[v.inst]
      mixin == createLogMixin(inst.includeLocation, NoSpan, stack)
  IN IF LevelVal(method) < LevelVal(inst.level)
       THEN [emitted |-> 0, threw |-> FALSE, record |-> NoRecord]
     ELSE [emitted |-> 1, threw |-> FALSE,
           record |-> Record(method, data @@ mixin.fields @@ ViewBindings(v))]

\* One call of a log method of pino: below the level of the instance the
\* method is a no-op; else the mixin runs, its fields are merged under the
\* fields of the call, and the record is written.
PinoLog(v, method, data, stack) ==
  LET inst == loggers[v.inst]
      mixin == createLogMixin(inst.includeLocation, traceApi, stack)
  IN IF LevelVal(method) < LevelVal(inst.level)
       THEN [emitted |-> 0, threw |-> FALSE, record |-> NoRecord]
     ELSE IF mixin.threw
       THEN [emitted |-> 0, threw |-> TRUE, record |-> NoRecord]
     ELSE [emitted |-> 1, threw |-> FALSE,
           record |-> Record(method, data @@ mixin.fields @@ ViewBindings(v))]

\* A variant whose default branch selects the error method.
LevelSwitchDefaultError(level) ==
  CASE level = "debug" -> "debug"
    [] level = "info" -> "info"
    [] level = "warn" -> "warn"
    [] level = "error" -> "error"
    [] OTHER -> "error"

\* The switch of logWithTrace: the log method a level string selects.
LevelSwitch(level) ==
  CASE level = "debug" -> "debug"
    [] level = "info" -> "info"
    [] level = "warn" -> "warn"
    [] level = "error" -> "error"
    [] OTHER -> "info"

\* logWithTrace(level, message, data)
logWithTrace(level, data, stack) ==
  LET traceContext == getTraceContext(traceApi)
      logData == IF traceContext.present
                   THEN [trace_id |-> traceContext.traceId,
                         span_id |-> traceContext.spanId] @@ data
                   ELSE data
  IN IF traceContext.threw
       THEN [emitted |-> 0, threw |-> TRUE, record |-> NoRecord]
       ELSE PinoLog(View(logger, 0), LevelSwitch(level), logData, stack)

\* A variant that leaves the cached instance in place.
resetKeepsLogger(f) == f

\* LoggerFactory.reset()
reset(f) == [f EXCEPT !._logger = 0]

\* A variant that builds a new instance on every call.
getLoggerOfRebuild(f) ==
  [factory |-> [f EXCEPT !._logger = Len(loggers) + 1],
   loggers |-> Append(loggers, createLogger(f._config, env)),
   result |-> Len(loggers) + 1]

\* LoggerFactory.getLogger(): builds the instance when none is cached
getLoggerOf(f) ==
  IF f._logger = 0
    THEN [factory |-> [f EXCEPT !._logger = Len(loggers) + 1],
          loggers |-> Append(loggers, createLogger(f._config, env)),
          result |-> Len(loggers) + 1]
    ELSE [factory |-> f, loggers |-> loggers, result |-> f._logger]

(***************************************************************************)
(* Actions: the environment.                                               *)
(***************************************************************************)
SetEnv(k, v) ==
  /\ envChanges < MaxEnvChanges
  /\ v # env[k]
  /\ env' = [env EXCEPT ![k] = v]
  /\ envChanges' = envChanges + 1
  /\ UNCHANGED <<traceApi, loggers, children, globalLoggerFactory, factory,
                 lastCall, lastGet, mixinOut, calls, console>>
  /\ UNCHANGED appVars
  /\ UNCHANGED orderVars

StartSpan(sp) ==
  /\ traceApi # sp
  /\ traceApi' = sp
  /\ UNCHANGED <<env, envChanges, loggers, children, globalLoggerFactory,
                 factory, lastCall, lastGet, mixinOut, calls, console>>
  /\ UNCHANGED appVars
  /\ UNCHANGED orderVars

EndSpan ==
  /\ traceApi.kind = "span"
  /\ traceApi' = NoSpan
  /\ UNCHANGED <<env, envChanges, loggers, children, globalLoggerFactory,
                 factory, lastCall, lastGet, mixinOut, calls, console>>
  /\ UNCHANGED appVars
  /\ UNCHANGED orderVars

BreakTraceApi(f) ==
  /\ traceApi # f
  /\ traceApi' = f
  /\ UNCHANGED <<env, envChanges, loggers, children, globalLoggerFactory,
                 factory, lastCall, lastGet, mixinOut, calls, console>>
  /\ UNCHANGED appVars
  /\ UNCHANGED orderVars

RepairTraceApi ==
  /\ traceApi \in TraceFailures
  /\ traceApi' = NoSpan
  /\ UNCHANGED <<env, envChanges, loggers, children, globalLoggerFactory,
                 factory, lastCall, lastGet, mixinOut, calls, console>>
  /\ UNCHANGED appVars
  /\ UNCHANGED orderVars

(***************************************************************************)
(* Actions: the logger module.                                             *)
(***************************************************************************)
\* getLogger(): the module's accessor of the global factory
GetLogger ==
  LET r == getLoggerOf(globalLoggerFactory) IN
  /\ Len(r.loggers) <= MaxInstances
  /\ globalLoggerFactory' = r.factory
  /\ loggers' = r.loggers
  /\ lastGet' = [lastGet EXCEPT !.global = r.result]
  /\ lastCall' = Outcome("getLogger", "", View(r.result, 0), FALSE, NoOutcome)
  /\ UNCHANGED <<env, envChanges, traceApi, children, factory, mixinOut, calls, console>>
  /\ UNCHANGED appVars
  /\ UNCHANGED orderVars

\* new LoggerFactory(config?)
NewLoggerFactory(config) ==
  /\ ~factory.exists
  /\ factory' = NewFactory(config)
  /\ UNCHANGED <<env, envChanges, traceApi, loggers, children,
                 globalLoggerFactory, lastCall, lastGet, mixinOut,
                 calls, console>>
  /\ UNCHANGED appVars
  /\ UNCHANGED orderVars

FactoryGetLogger ==
  LET r == getLoggerOf(factory) IN
  /\ factory.exists
  /\ Len(r.loggers) <= MaxInstances
  /\ factory' = r.factory
  /\ loggers' = r.loggers
  /\ lastGet' = [lastGet EXCEPT !.app = r.result]
  /\ lastCall' = Outcome("factory.getLogger", "", View(r.result, 0), FALSE, NoOutcome)
  /\ UNCHANGED <<env, envChanges, traceApi, children, globalLoggerFactory,
                 mixinOut, calls, console>>
  /\ UNCHANGED appVars
  /\ UNCHANGED orderVars

FactoryReset ==
  /\ factory.exists
  /\ factory' = reset(factory)
  /\ lastGet' = [lastGet EXCEPT !.app = 0, !.beforeReset = lastGet.app]
  /\ UNCHANGED <<env, envChanges, traceApi, loggers, children,
                 globalLoggerFactory, lastCall, mixinOut, calls, console>>
  /\ UNCHANGED appVars
  /\ UNCHANGED orderVars

\* createChildLogger(context)
CreateChildLogger(context) ==
  /\ Len(children) < MaxChildren
  /\ children' = Append(children, child(logger, context))
  /\ UNCHANGED <<env, envChanges, traceApi, loggers, globalLoggerFactory,
                 factory, lastCall, lastGet, mixinOut, calls, console>>
  /\ UNCHANGED appVars
  /\ UNCHANGED orderVars

\* a log method of a logger or child logger called from application code
Log(v, method, data, site, stackAvail) ==
  LET stack == IF stackAvail THEN Stack(LoggerCallStack(site)) ELSE NoStack
      r == PinoLog(v, method, data, stack)
  IN /\ lastCall' = Outcome("log", method, v, stackAvail, r)
     /\ UNCHANGED <<env, envChanges, traceApi, loggers, children,
                    globalLoggerFactory, factory, lastGet, mixinOut, calls,
                    console>>
     /\ UNCHANGED appVars
     /\ UNCHANGED orderVars

LogWithTrace(level, data, site, stackAvail) ==
  LET stack == IF stackAvail THEN Stack(LogWithTraceStack(site)) ELSE NoStack
      r == logWithTrace(level, data, stack)
  IN /\ lastCall' = Outcome("logWithTrace", level, View(logger, 0), stackAvail, r)
     /\ UNCHANGED <<env, envChanges, traceApi, loggers, children,
                    globalLoggerFactory, factory, lastGet, mixinOut, calls,
                    console>>
     /\ UNCHANGED appVars
     /\ UNCHANGED orderVars

\* a log method called from application code at `site`, on a runtime that
\* lays the stack out as `layout` says
LogFrom(v, method, site, layout) ==
  LET stack == Stack(LoggerCallStackIn(layout, site))
      r == PinoLog(v, method, NoFields, stack)
  IN /\ lastCall' = Outcome("log", method, v, TRUE, r)
     /\ callerOut' = [op |-> "log", site |-> site, layout |-> layout,
                      stack |-> stack,
                      result |-> IF r.emitted = 1 /\ "caller" \in DOMAIN r.record.fields
                                   THEN r.record.fields["caller"] ELSE ABSENT]
     /\ UNCHANGED <<env, envChanges, traceApi, loggers, children,
                    globalLoggerFactory, factory, lastGet, mixinOut, calls,
                    console, otel, app, http>>
     /\ UNCHANGED orderVars

\* getCallerInfo() called with `stack` as the content of new Error().stack
CallGetCallerInfo(stack) ==
  /\ callerOut' = [op |-> "getCallerInfo", site |-> ErrorLine, layout |-> "",
                   stack |-> stack, result |-> getCallerInfo(stack)]
  /\ UNCHANGED <<env, envChanges, traceApi, loggers, children,
                 globalLoggerFactory, factory, lastCall, lastGet, mixinOut,
                 calls, console, otel, app, http>>
  /\ UNCHANGED orderVars

\* createLogMixin(includeLocation) called directly
CallCreateLogMixin(includeLocation, site, stackAvail) ==
  LET stack == IF stackAvail THEN Stack(DirectMixinStack(site)) ELSE NoStack
      r == createLogMixin(includeLocation, traceApi, stack)
  IN /\ mixinOut' = [called |-> TRUE, includeLocation |-> includeLocation,
                     api |-> traceApi, stackAvail |-> stackAvail,
                     tracingOff |-> otel.disabledRan,
                     threw |-> r.threw, result |-> r.fields]
     /\ UNCHANGED <<env, envChanges, traceApi, loggers, children,
                    globalLoggerFactory, factory, lastCall, lastGet,
                    calls, console>>
     /\ UNCHANGED appVars
     /\ UNCHANGED orderVars

(***************************************************************************)
(* shutdownOTel(sdk).  A call runs to its await; the promise returned by   *)
(* sdk.shutdown() settles in a later step.                                 *)
(***************************************************************************)
Handles == {"null", "sdk"}
ShutdownBehaviours == {"ok", "throws", "rejects"}

LogCompleted == "OpenTelemetry SDK shutdown completed"
LogShutdownError == "Error shutting down OpenTelemetry SDK:"

\* The call up to its first suspension: `state` is the state of the promise
\* shutdownOTel returned, `invoked` counts the calls of sdk.shutdown(),
\* `line` is what it wrote to the console ("" for nothing).
shutdownOTelStart(sdk, behaviour) ==
  IF sdk = "null"
    THEN [sdk |-> sdk, behaviour |-> behaviour, state |-> "resolved",
          invoked |-> 0, line |-> ""]
  ELSE IF behaviour = "throws"
    THEN [sdk |-> sdk, behaviour |-> behaviour, state |-> "resolved",
          invoked |-> 1, line |-> LogShutdownError]
  ELSE [sdk |-> sdk, behaviour |-> behaviour, state |-> "awaiting",
        invoked |-> 1, line |-> ""]

\* A variant without the catch clause: a rejection of sdk.shutdown()
\* rejects the promise of shutdownOTel.
shutdownOTelResumeNoCatch(call) ==
  IF call.behaviour = "ok"
    THEN [call EXCEPT !.state = "resolved", !.line = LogCompleted]
    ELSE [call EXCEPT !.state = "rejected"]

\* The continuation after `await sdk.shutdown()` settled.
shutdownOTelResume(call) ==
  IF call.behaviour = "ok"
    THEN [call EXCEPT !.state = "resolved", !.line = LogCompleted]
    ELSE [call EXCEPT !.state = "resolved", !.line = LogShutdownError]

ShutdownOTel(sdk, behaviour) ==
  LET c == shutdownOTelStart(sdk, behaviour) IN
  /\ Len(calls) < MaxCalls
  /\ sdk = "null" => behaviour = "ok"
  /\ calls' = Append(calls, c)
  /\ console' = IF c.line = "" THEN console
                ELSE Append(console, [call |-> Len(calls) + 1, line |-> c.line])
  /\ UNCHANGED logVars
  /\ UNCHANGED mixinOut
  /\ UNCHANGED appVars
  /\ UNCHANGED orderVars

ShutdownSettles(i) ==
  LET c == shutdownOTelResume(calls[i]) IN
  /\ calls[i].state = "awaiting"
  /\ calls' = [calls EXCEPT ![i] = c]
  /\ console' = IF c.line = "" THEN console
                ELSE Append(console, [call |-> i, line |-> c.line])
  /\ UNCHANGED logVars
  /\ UNCHANGED mixinOut
  /\ UNCHANGED appVars
  /\ UNCHANGED orderVars

(***************************************************************************)
(* Operations of index.ts.  What an operation does is a sequence of        *)
(* events: a call of a log method (with the record it wrote, if any), a    *)
(* call of app.listen, a call of shutdownOTel.                             *)
(***************************************************************************)
LogEvent(method, msg, r) ==
  [kind |-> "log", level |-> method, msg |-> msg, emitted |-> r.emitted,
   fields |-> r.record.fields]
ListenEvent(port) == [kind |-> "listen", port |-> port]
ShutdownEvent(sdk) == [kind |-> "shutdownOTel", sdk |-> sdk]

\* the stack of a log call made by a function of index.ts at line `ln`
IndexSite(ln) == Line(FALSE, FALSE, "paren", <<"", "app", "src", "index.ts">>, ln)
IndexStack(ln) == Stack(LoggerCallStack(IndexSite(ln)))

\* A variant that resolves the service name without npm_package_name.
startServerNoPackage(port) ==
  LET data == [port |-> port,
               environment |-> OrElse(env["NODE_ENV"], "development"),
               tracing_enabled |-> env["OTEL_TRACING_ENABLED"] # "false",
               service_name |-> OrElse(env["OTEL_SERVICE_NAME"], "ts-backend-template")]
  IN <<LogEvent("info", "Server starting",
                PinoLog(View(logger, 0), "info", data, IndexStack("115"))),
       ListenEvent(port)>>

\* startServer(port)
startServer(port) ==
  LET data == [port |-> port,
               environment |-> OrElse(env["NODE_ENV"], "development"),
               tracing_enabled |-> env["OTEL_TRACING_ENABLED"] # "false",
               service_name |-> OrElse(env["OTEL_SERVICE_NAME"],
                                       OrElse(env["npm_package_name"],
                                              "ts-backend-template"))]
  IN <<LogEvent("info", "Server starting",
                PinoLog(View(logger, 0), "info", data, IndexStack("115"))),
       ListenEvent(port)>>

(***************************************************************************)
(* The HTTP application of index.ts.                                       *)
(***************************************************************************)
NULL == "<null>"                      \* JavaScript null
Now == "<now>"                        \* new Date().toISOString()

Methods == {"GET", "POST", "PUT", "DELETE"}
\* the routes index.ts defines, all with app.get
Routes == {"/", "/health", "/ready"}
Paths == Routes \cup {"/non-existent"}
UserAgents == {NULL, "curl/8"}        \* request.headers.get('user-agent')

Faults == {Fault(TRUE, "secret at db:5432", "UNKNOWN"),
           Fault(TRUE, "bad input", "VALIDATION"), Fault(FALSE, "", "UNKNOWN"),
           Fault(TRUE, "gone", "NOT_FOUND")}

Requests == [method : Methods, path : Paths, userAgent : UserAgents,
             fault : {NoFault} \cup Faults]

\* a log call of a child logger made for one request; the context shares
\* no key with the fields of the call, of the mixin or of the parent
ChildLog(context, method, msg, ln) ==
  LET c == child(logger, context)
      r == PinoLog(View(logger, 0), method, NoFields, IndexStack(ln))
  IN LogEvent(method, msg,
              IF r.emitted = 1
                THEN [r EXCEPT !.record = Record(method, r.record.fields @@ c.bindings)]
                ELSE r)

HandlerEvent(path) == [kind |-> "handler", route |-> path]

\* A variant that sends one identifier and binds another.
onRequestTwoIds(req, requestId) ==
  [headers |-> ("x-request-id" :> requestId + 1),
   event |-> ChildLog([request_id |-> requestId, method |-> req.method,
                       url |-> "http://localhost" \o req.path,
                       user_agent |-> req.userAgent],
                      "info", "Incoming request", "24")]

\* app.onRequest: `requestId` is what randomUUID() returned
onRequest(req, requestId) ==
  [headers |-> ("x-request-id" :> requestId),
   event |-> ChildLog([request_id |-> requestId, method |-> req.method,
                       url |-> "http://localhost" \o req.path,
                       user_agent |-> req.userAgent],
                      "info", "Incoming request", "24")]

\* app.onAfterHandle: set.status is not set by any handler
onAfterHandle(req) ==
  ChildLog([method |-> req.method, url |-> "http://localhost" \o req.path,
            status |-> 200],
           "info", "Request completed", "32")

\* the handlers of the three routes
RouteBody(path, e) ==
  CASE path = "/health" ->
         [status |-> "ok", timestamp |-> Now, uptime |-> "<uptime>",
          environment |-> OrElse(e["NODE_ENV"], "development"),
          version |-> OrElse(e["npm_package_version"], "1.0.0")]
    [] path = "/ready" ->
         [status |-> "ready", timestamp |-> Now, latency |-> 0,
          dependencies |-> "<dependencies>"]
    [] path = "/" ->
         [message |-> "Welcome to the TypeScript Backend Template",
          documentation |-> "/health for health checks, /ready for readiness checks",
          timestamp |-> Now]

\* A variant that shows the message of the error unless in production.
onErrorLeaksOutsideProduction(fault, e) ==
  LET errorMessage == IF fault.isError THEN fault.message ELSE "Unknown error"
      data == [error |-> errorMessage, code |-> fault.code,
               stack |-> IF fault.isError THEN "<stack>" ELSE ABSENT]
      event == LogEvent("error", "Application error",
                        PinoLog(View(logger, 0), "error", data, IndexStack("80")))
  IN IF fault.code = "NOT_FOUND"
       THEN [status |-> 404, event |-> event,
             body |-> [error |-> "Not Found",
                       message |-> "The requested endpoint does not exist",
                       timestamp |-> Now]]
       ELSE [status |-> 500, event |-> event,
             body |-> [error |-> "Internal Server Error",
                       message |-> IF e["NODE_ENV"] # "production" /\ fault.isError
                                     THEN fault.message ELSE "Something went wrong",
                       timestamp |-> Now]]

\* app.onError({ error, code, set })
onError(fault, e) ==
  LET errorMessage == IF fault.isError THEN fault.message ELSE "Unknown error"
      data == [error |-> errorMessage, code |-> fault.code,
               stack |-> IF fault.isError THEN "<stack>" ELSE ABSENT]
      event == LogEvent("error", "Application error",
                        PinoLog(View(logger, 0), "error", data, IndexStack("80")))
  IN IF fault.code = "NOT_FOUND"
       THEN [status |-> 404, event |-> event,
             body |-> [error |-> "Not Found",
                       message |-> "The requested endpoint does not exist",
                       timestamp |-> Now]]
       ELSE [status |-> 500, event |-> event,
             body |-> [error |-> "Internal Server Error",
                       message |-> IF e["NODE_ENV"] = "development" /\ fault.isError
                                     THEN fault.message ELSE "Something went wrong",
                       timestamp |-> Now]]

\* A variant that finds a route by its path alone.
FindRouteAnyMethod(req) == req.path \in Routes

\* the router: a route is found for the method and path it was defined with
FindRoute(req) == req.method = "GET" /\ req.path \in Routes

\* One request through the application: onRequest, then the route handler
\* and onAfterHandle, or onError when no route is found (NOT_FOUND) or the
\* handler throws.
handle(req, requestId, e) ==
  LET pre == onRequest(req, requestId)
      found == FindRoute(req)
      failed == IF ~found THEN onError(Fault(TRUE, "NOT_FOUND", "NOT_FOUND"), e)
                ELSE onError(req.fault, e)
  IN IF found /\ ~req.fault.thrown
       THEN [request |-> req, requestId |-> requestId, envAt |-> e, status |-> 200,
             headers |-> pre.headers, body |-> RouteBody(req.path, e),
             trail |-> <<pre.event, HandlerEvent(req.path), onAfterHandle(req)>>,
             failing |-> "none"]
     ELSE [request |-> req, requestId |-> requestId, envAt |-> e,
           status |-> failed.status, headers |-> pre.headers, body |-> failed.body,
           trail |-> IF found
                       THEN <<pre.event, HandlerEvent(req.path), failed.event>>
                       ELSE <<pre.event, failed.event>>,
           failing |-> "none"]

\* The hooks of index.ts call the log methods outside any try block, so an
\* exception of a log call leaves the hook.  `failing` names the hook
\* whose log call throws ("none" for none); LogFault is what it throws
\* and ThrownLogEvent the event of a log call that threw.
Hooks == {"onRequest", "onAfterHandle", "onError"}
LogFault == Fault(TRUE, "log call failed", "UNKNOWN")
ThrownLogEvent(ev) == [kind |-> "log", level |-> ev.level, msg |-> ev.msg,
                       emitted |-> 0, fields |-> NoFields, threw |-> TRUE]
\* the response of the server when the error handler itself throws
FrameworkError == [status |-> 500, body |-> [error |-> "<framework default>"]]

\* One request through the application when the log call of one hook
\* throws (a call below the level of the logger runs nothing and cannot
\* throw): an exception leaving onRequest or onAfterHandle is an error of
\* the request and goes to onError (code UNKNOWN); an exception leaving
\* onError leaves the application and the server answers for it.
handleFailing(req, requestId, e, failing) ==
  LET pre == onRequest(req, requestId)
      post == onAfterHandle(req)
      found == FindRoute(req)
      preThrows == failing = "onRequest" /\ pre.event.emitted = 1
      postThrows == failing = "onAfterHandle" /\ post.emitted = 1
      fault == IF preThrows THEN LogFault
               ELSE IF ~found THEN Fault(TRUE, "NOT_FOUND", "NOT_FOUND")
               ELSE IF req.fault.thrown THEN req.fault
               ELSE IF postThrows THEN LogFault
               ELSE NoFault
      failed == onError(fault, e)
      errThrows == failing = "onError" /\ failed.event.emitted = 1
      before == IF preThrows THEN <<ThrownLogEvent(pre.event)>>
                ELSE IF ~found THEN <<pre.event>>
                ELSE IF req.fault.thrown THEN <<pre.event, HandlerEvent(req.path)>>
                ELSE IF postThrows
                  THEN <<pre.event, HandlerEvent(req.path), ThrownLogEvent(post)>>
                ELSE <<pre.event, HandlerEvent(req.path), post>>
  IN IF ~fault.thrown
       THEN [request |-> req, requestId |-> requestId, envAt |-> e, status |-> 200,
             headers |-> pre.headers, body |-> RouteBody(req.path, e),
             trail |-> before, failing |-> failing]
     ELSE IF errThrows
       THEN [request |-> req, requestId |-> requestId, envAt |-> e,
             status |-> FrameworkError.status, headers |-> pre.headers,
             body |-> FrameworkError.body,
             trail |-> Append(before, ThrownLogEvent(failed.event)),
             failing |-> failing]
     ELSE [request |-> req, requestId |-> requestId, envAt |-> e,
           status |-> failed.status, headers |-> pre.headers, body |-> failed.body,
           trail |-> Append(before, failed.event), failing |-> failing]

\* a request served while the log call of one hook throws
HandleRequestFailing(req, failing) ==
  /\ app.loaded
  /\ http.served < MaxRequests
  /\ req.fault.thrown => FindRoute(req)
  /\ http' = [served |-> http.served + 1,
              last |-> handleFailing(req, http.served + 1, env, failing),
              prev |-> http.last]
  /\ UNCHANGED <<env, envChanges, traceApi, loggers, children,
                 globalLoggerFactory, factory, lastCall, lastGet, mixinOut,
                 calls, console, otel, app, callerOut>>
  /\ UNCHANGED orderVars

HandleRequest(req) ==
  /\ app.loaded
  /\ http.served < MaxRequests
  /\ req.fault.thrown => FindRoute(req)
  /\ http' = [served |-> http.served + 1,
              last |-> handle(req, http.served + 1, env),
              prev |-> http.last]
  /\ UNCHANGED <<env, envChanges, traceApi, loggers, children,
                 globalLoggerFactory, factory, lastCall, lastGet, mixinOut,
                 calls, console, otel, app, callerOut>>
  /\ UNCHANGED orderVars

\* A JavaScript number as far as a port needs it: NaN, or a sign-carrying
\* integer part and whether a fractional part is left.
Num(i) == [nan |-> FALSE, int |-> i, frac |-> FALSE]
NaN == [nan |-> TRUE, int |-> 0, frac |-> FALSE]

PortValues == {UNSET, "", "8080", "0", "abc", "80a", " 42 ", "-1", "70000", "3.5"}

\* the characters of the strings PORT is given
Chars(str) ==
  CASE str = "" -> <<>>
    [] str = "8080" -> <<"8", "0", "8", "0">>
    [] str = "0" -> <<"0">>
    [] str = "abc" -> <<"a", "b", "c">>
    [] str = "80a" -> <<"8", "0", "a">>
    [] str = " 42 " -> <<" ", "4", "2", " ">>
    [] str = "-1" -> <<"-", "1">>
    [] str = "70000" -> <<"7", "0", "0", "0", "0">>
    [] str = "3.5" -> <<"3", ".", "5">>

DigitChars == {"0", "1", "2", "3", "4", "5", "6", "7", "8", "9"}
DigitVal(c) ==
  CASE c = "0" -> 0 [] c = "1" -> 1 [] c = "2" -> 2 [] c = "3" -> 3 [] c = "4" -> 4
    [] c = "5" -> 5 [] c = "6" -> 6 [] c = "7" -> 7 [] c = "8" -> 8 [] c = "9" -> 9

\* StringToNumber strips white space at both ends
RECURSIVE TrimLeft(_)
TrimLeft(cs) == IF cs # <<>> /\ Head(cs) = " " THEN TrimLeft(Tail(cs)) ELSE cs
RECURSIVE TrimRight(_)
TrimRight(cs) ==
  IF cs # <<>> /\ cs[Len(cs)] = " " THEN TrimRight(SubSeq(cs, 1, Len(cs) - 1)) ELSE cs

\* the value of a run of decimal digits, read from the left
RECURSIVE DigitsValue(_, _)
DigitsValue(cs, acc) ==
  IF cs = <<>> THEN acc ELSE DigitsValue(Tail(cs), 10 * acc + DigitVal(Head(cs)))

\* an unsigned decimal literal without exponent: digits, optionally a
\* point and more digits
Unsigned(cs) ==
  LET dots == {i \in 1..Len(cs) : cs[i] = "."}
      point == IF dots = {} THEN Len(cs) + 1 ELSE CHOOSE i \in dots : \A j \in dots : i <= j
      whole == SubSeq(cs, 1, point - 1)
      part == SubSeq(cs, point + 1, Len(cs))
      AllDigits(t) == \A i \in 1..Len(t) : t[i] \in DigitChars
  IN IF Len(whole) + Len(part) = 0 \/ ~AllDigits(whole) \/ ~AllDigits(part) THEN NaN
     ELSE [nan |-> FALSE, int |-> DigitsValue(whole, 0),
           frac |-> DigitsValue(part, 0) # 0]

\* Number(value) for the values of PortValues: undefined gives NaN, a
\* string is trimmed, the empty string gives 0, a decimal literal with an
\* optional sign gives its value and any other text gives NaN.
Number(value) ==
  IF value = UNSET THEN NaN
  ELSE LET cs == TrimRight(TrimLeft(Chars(value))) IN
       IF cs = <<>> THEN Num(0)
       ELSE IF Head(cs) = "-"
         THEN LET n == Unsigned(Tail(cs)) IN
              IF n.nan THEN NaN ELSE [n EXCEPT !.int = 0 - n.int]
       ELSE IF Head(cs) = "+" THEN Unsigned(Tail(cs))
       ELSE Unsigned(cs)

\* JavaScript truthiness of a number: neither NaN nor zero
Truthy(n) == ~n.nan /\ (n.int # 0 \/ n.frac)

\* the port of the main block: Number(process.env.PORT) || 3000
MainPort(e) == IF Truthy(Number(e["PORT"])) THEN Number(e["PORT"]) ELSE Num(3000)

\* evaluation of index.ts: `const sdk = initializeOTel()` comes first
LoadIndex(startOutcome) ==
  /\ ~app.loaded
  /\ otel.calls < MaxInits
  /\ otel' = AfterInit(otel, env, startOutcome)
  /\ app' = [app EXCEPT !.loaded = ~initializeOTel(env, startOutcome).threw,
                        !.sdk = initializeOTel(env, startOutcome).sdk]
  /\ UNCHANGED <<env, envChanges, traceApi, loggers, children,
                 globalLoggerFactory, factory, lastCall, lastGet, mixinOut,
                 calls, console, http, callerOut>>
  /\ UNCHANGED orderVars

StartServer(port) ==
  /\ app.loaded
  /\ app' = [app EXCEPT !.op = "startServer", !.arg = port, !.envAt = env,
                        !.trail = startServer(port)]
  /\ UNCHANGED <<env, envChanges, traceApi, loggers, children,
                 globalLoggerFactory, factory, lastCall, lastGet, mixinOut,
                 calls, console, otel, http, callerOut>>
  /\ UNCHANGED orderVars

\* the block run when index.ts is the entry point of the process
Main ==
  /\ app.loaded
  /\ app.op = "none"
  /\ app' = [app EXCEPT !.op = "main", !.arg = env["PORT"], !.envAt = env,
                        !.trail = startServer(MainPort(env))]
  /\ UNCHANGED <<env, envChanges, traceApi, loggers, children,
                 globalLoggerFactory, factory, lastCall, lastGet, mixinOut,
                 calls, console, otel, http, callerOut>>
  /\ UNCHANGED orderVars

(***************************************************************************)
(* Actions: tracing set-up.                                                *)
(***************************************************************************)
\* the span the instrumentation opens for the request of handler h
HandlerSpan(h) ==
  IF h = 1 THEN ActiveSpan("trace-1", "span-1") ELSE ActiveSpan("trace-2", "span-2")

\* A variant that keeps the request logger in a variable of the module,
\* so that a handler logs through the child the last request created.
handlerLogShared(h, n) ==
  LET c == child(logger, [request_id |-> IF n > 1
                                           THEN CHOOSE o \in Handlers : o # h
                                           ELSE h])
      r == PinoLog(View(logger, 0), "info", [n |-> n], IndexStack("24"))
  IN IF r.emitted = 1
       THEN [r EXCEPT !.record = Record("info", r.record.fields @@ c.bindings)]
       ELSE r

\* The n-th log call of handler h: calls of odd number go through the
\* child logger onRequest creates for the request (request_id bound),
\* calls of even number through logWithTrace.
handlerLog(h, n) ==
  IF n % 2 = 1
    THEN LET c == child(logger, [request_id |-> h])
             r == PinoLog(View(logger, 0), "info", [n |-> n], IndexStack("24"))
         IN IF r.emitted = 1
              THEN [r EXCEPT !.record = Record("info", r.record.fields @@ c.bindings)]
              ELSE r
    ELSE logWithTrace("info", [n |-> n], Stack(LogWithTraceStack(IndexSite("24"))))

\* The event loop resumes handler h: the context manager of the started
\* SDK makes the context of h the active one.
Resume(h) ==
  /\ app.loaded
  /\ handlers.running # h
  /\ handlers' = [handlers EXCEPT !.running = h]
  /\ traceApi' = handlers.of[h].span
  /\ UNCHANGED <<env, envChanges, loggers, children, globalLoggerFactory,
                 factory, lastCall, lastGet, mixinOut, calls, console, sink>>
  /\ UNCHANGED appVars

\* a span becomes active in the context of the running handler
HandlerStartSpan(h) ==
  /\ handlers.running = h
  /\ otel.startCalled
  /\ handlers.of[h].span = NoSpan
  /\ handlers' = [handlers EXCEPT !.of[h].span = HandlerSpan(h)]
  /\ traceApi' = HandlerSpan(h)
  /\ UNCHANGED <<env, envChanges, loggers, children, globalLoggerFactory,
                 factory, lastCall, lastGet, mixinOut, calls, console, sink>>
  /\ UNCHANGED appVars

HandlerEndSpan(h) ==
  /\ handlers.running = h
  /\ handlers.of[h].span # NoSpan
  /\ handlers' = [handlers EXCEPT !.of[h].span = NoSpan]
  /\ traceApi' = NoSpan
  /\ UNCHANGED <<env, envChanges, loggers, children, globalLoggerFactory,
                 factory, lastCall, lastGet, mixinOut, calls, console, sink>>
  /\ UNCHANGED appVars

\* The running handler makes its next log call; the call runs to its end
\* before anything else does, and its record, if any, is written behind
\* those already written.  `by`, `n` and `context` remember the handler,
\* the number of the call and the span of the handler's context.
HandlerLog(h) ==
  LET n == handlers.of[h].pc + 1
      r == handlerLog(h, n)
  IN /\ handlers.running = h
     /\ n <= MaxLogs
     /\ handlers' = [handlers EXCEPT !.of[h].pc = n]
     /\ sink' = IF r.emitted = 1
                  THEN Append(sink, [by |-> h, n |-> n, context |-> handlers.of[h].span,
                                     record |-> r.record])
                  ELSE sink
     /\ UNCHANGED <<env, envChanges, traceApi, loggers, children,
                    globalLoggerFactory, factory, lastCall, lastGet, mixinOut,
                    calls, console>>
     /\ UNCHANGED appVars

\* The running handler calls getLogger() of the module ("global") or of
\* the application's factory ("app").  The call is synchronous: the test
\* of _logger and the assignment run without another handler in between.
HandlerGetLogger(h, which) ==
  LET f == IF which = "global" THEN globalLoggerFactory ELSE factory
      r == getLoggerOf(f)
  IN /\ handlers.running = h
     /\ f.exists
     /\ handlers.of[h].got[which] = 0
     /\ Len(r.loggers) <= MaxInstances
     /\ loggers' = r.loggers
     /\ globalLoggerFactory' = IF which = "global" THEN r.factory ELSE globalLoggerFactory
     /\ factory' = IF which = "app" THEN r.factory ELSE factory
     /\ handlers' = [handlers EXCEPT !.of[h].got[which] = r.result]
     /\ UNCHANGED <<env, envChanges, traceApi, children, lastCall, lastGet,
                    mixinOut, calls, console, sink>>
     /\ UNCHANGED appVars

\* initializeOTel() called in the environment of the moment
InitializeOTel(startOutcome) ==
  /\ otel.calls < MaxInits
  /\ otel' = AfterInit(otel, env, startOutcome)
  /\ UNCHANGED <<env, envChanges, traceApi, loggers, children,
                 globalLoggerFactory, factory, lastCall, lastGet, mixinOut,
                 calls, console, app, http, callerOut>>
  /\ UNCHANGED orderVars

\* A span becomes active in the context of the caller: the instrumentation
\* of a started SDK opens it; the tracing API without a registered SDK
\* answers no span.
SdkStartSpan(sp) ==
  /\ otel.startCalled
  /\ StartSpan(sp)

(***************************************************************************)
(* handleShutdown(signal) of index.ts.                                     *)
(***************************************************************************)
Signals == {"SIGTERM", "SIGINT", "CUSTOM_SIGNAL"}

\* A variant with a "shutting down" flag: only the first call shuts the
\* SDK down.
handleShutdownOnce(signal) ==
  <<LogEvent("info", signal \o " received, shutting down gracefully",
             PinoLog(View(logger, 0), "info", NoFields, IndexStack("104")))>>
    \o (IF app.shutdowns > 0 THEN <<>> ELSE <<ShutdownEvent(app.sdk)>>)

\* A variant that shuts the SDK down before it logs.
handleShutdownShutsFirst(signal) ==
  <<ShutdownEvent(app.sdk),
    LogEvent("info", signal \o " received, shutting down gracefully",
             PinoLog(View(logger, 0), "info", NoFields, IndexStack("104")))>>

\* handleShutdown(signal) up to the await of shutdownOTel(sdk)
handleShutdown(signal) ==
  <<LogEvent("info", signal \o " received, shutting down gracefully",
             PinoLog(View(logger, 0), "info", NoFields, IndexStack("104"))),
    ShutdownEvent(app.sdk)>>

\* A call of handleShutdown: every shutdownOTel call it makes starts, as
\* in ShutdownOTel, and settles in a later step.
HandleShutdown(signal, behaviour) ==
  LET t == handleShutdown(signal)
      evs == SelectSeq(t, LAMBDA ev : ev.kind = "shutdownOTel")
      started == [i \in 1..Len(evs) |-> shutdownOTelStart(evs[i].sdk, behaviour)]
      lines == [i \in 1..Len(evs) |-> [call |-> Len(calls) + i, line |-> started[i].line]]
  IN /\ app.loaded
     /\ Len(calls) + Len(evs) <= MaxCalls
     /\ app.sdk = "null" => behaviour = "ok"
     /\ app' = [app EXCEPT !.op = "handleShutdown", !.arg = signal, !.envAt = env,
                           !.trail = t, !.shutdowns = @ + 1]
     /\ calls' = calls \o started
     /\ console' = console \o SelectSeq(lines, LAMBDA l : l.line # "")
     /\ UNCHANGED <<env, envChanges, traceApi, loggers, children,
                    globalLoggerFactory, factory, lastCall, lastGet, mixinOut,
                    otel, http, callerOut>>
     /\ UNCHANGED orderVars

(***************************************************************************)
(* Specifications.                                                         *)
(***************************************************************************)
\* the signals index.ts installs a handler for
ProcessSignals == {"SIGTERM", "SIGINT"}

\* A signal is delivered: its handler calls handleShutdown(signal), which
\* runs up to the await of shutdownOTel(sdk); the handler then awaits the
\* promise of handleShutdown.  Nothing remembers that a shutdown is under
\* way.
DeliverSignal(signal, behaviour) ==
  LET t == handleShutdown(signal)
      evs == SelectSeq(t, LAMBDA ev : ev.kind = "shutdownOTel")
      started == [i \in 1..Len(evs) |-> shutdownOTelStart(evs[i].sdk, behaviour)]
      lines == [i \in 1..Len(evs) |-> [call |-> Len(calls) + i, line |-> started[i].line]]
  IN /\ app.loaded
     /\ ~app.exit.exited
     /\ Len(app.signals) < MaxCalls
     /\ Len(calls) + Len(evs) <= MaxCalls
     /\ app.sdk = "null" => behaviour = "ok"
     /\ app' = [app EXCEPT !.op = "signal", !.arg = signal, !.envAt = env,
                           !.trail = t, !.shutdowns = @ + 1,
                           !.signals = Append(@, [signal |-> signal,
                                                  awaits |-> {Len(calls) + i :
                                                                i \in 1..Len(evs)}])]
     /\ calls' = calls \o started
     /\ console' = console \o SelectSeq(lines, LAMBDA l : l.line # "")
     /\ UNCHANGED <<env, envChanges, traceApi, loggers, children,
                    globalLoggerFactory, factory, lastCall, lastGet, mixinOut,
                    otel, http, callerOut>>
     /\ UNCHANGED orderVars

\* sdk.shutdown() of a pending call settles while the process runs
SettleBeforeExit(i) ==
  /\ ~app.exit.exited
  /\ ShutdownSettles(i)

\* The handler of the k-th signal resumes behind `await handleShutdown`,
\* once every shutdownOTel promise it waits for has resolved, and calls
\* process.exit(0); a rejected promise would end the handler before the
\* call.
ProcessExit(k) ==
  /\ ~app.exit.exited
  /\ \A i \in app.signals[k].awaits : calls[i].state = "resolved"
  /\ app' = [app EXCEPT !.exit = [exited |-> TRUE, code |-> 0, by |-> k]]
  /\ UNCHANGED <<env, envChanges, traceApi, loggers, children,
                 globalLoggerFactory, factory, lastCall, lastGet, mixinOut,
                 calls, console, otel, http, callerOut>>
  /\ UNCHANGED orderVars

TraceStep ==
  \/ \E sp \in Spans : StartSpan(sp)
  \/ EndSpan
  \/ \E f \in TraceFailures : BreakTraceApi(f)
  \/ RepairTraceApi

\* a trace becoming active and ending while the application reconfigures
SpanStep ==
  \/ StartSpan(ActiveSpan("abcd1234", "ef56"))
  \/ EndSpan

LogStep ==
  \E v \in Views, method \in LogMethods, data \in DataBags,
     site \in CallSites, stackAvail \in BOOLEAN :
     Log(v, method, data, site, stackAvail)

LoggingStep ==
  \/ GetLogger
  \/ \E context \in Contexts : CreateChildLogger(context)
  \/ LogStep
  \/ \E level \in LogMethods \cup {"verbose"}, data \in DataBags,
        site \in CallSites, stackAvail \in BOOLEAN :
        LogWithTrace(level, data, site, stackAvail)

\* log calls made by the application while it reconfigures: any logger it
\* holds, below and above the thresholds, from one call site
ConfigLogStep ==
  \E v \in Views, method \in {"info", "error"} :
     Log(v, method, NoFields, CHOOSE site \in CallSites : site.form = "paren", TRUE)

ConfigStep ==
  \/ \E k \in EnvKeys : \E v \in EnvValues(k) : SetEnv(k, v)
  \/ GetLogger
  \/ \E c \in {NoConfig, createLoggerConfig(env)} : NewLoggerFactory(c)
  \/ FactoryGetLogger
  \/ FactoryReset
  \/ ConfigLogStep

MixinStep ==
  \E includeLocation \in BOOLEAN, site \in CallSites, stackAvail \in BOOLEAN :
    CallCreateLogMixin(includeLocation, site, stackAvail)

ShutdownStep ==
  \/ \E sdk \in Handles, b \in ShutdownBehaviours : ShutdownOTel(sdk, b)
  \/ \E i \in 1..Len(calls) : ShutdownSettles(i)

\* the logger, its child loggers and logWithTrace under a changing trace
SpecLogging == Init /\ [][TraceStep \/ LoggingStep]_vars

\* the environment, the factories and the instances they build
SpecConfig == Init /\ [][SpanStep \/ ConfigStep]_vars

\* createLogMixin as a function of the tracing API and the stack
SpecMixin == Init /\ [][TraceStep \/ MixinStep]_vars

\* shutdownOTel
SpecShutdown == Init /\ [][ShutdownStep]_vars

\* the modules loaded in an environment that configures tracing
OTelEnvs ==
  {With(EmptyEnv, [OTEL_TRACING_ENABLED |-> t, OTEL_CONSOLE_EXPORTER |-> c,
                   OTEL_EXPORTER_OTLP_TRACES_ENDPOINT |-> u, NODE_ENV |-> n]) :
     t \in TracingEnabledValues, c \in ConsoleExporterValues,
     u \in OtlpEndpointValues, n \in NodeEnvValues}

InitOTel ==
  /\ env \in OTelEnvs
  /\ envChanges = 0
  /\ traceApi = NoSpan
  /\ loggers = <<createLogger(NoConfig, env)>>
  /\ children = <<>>
  /\ globalLoggerFactory = [exists |-> TRUE, _logger |-> logger, _config |-> NoConfig]
  /\ factory = NoFactory
  /\ lastCall = NoCall
  /\ lastGet = [global |-> logger, app |-> 0, beforeReset |-> 0]
  /\ mixinOut = NoMixinOut
  /\ calls = <<>>
  /\ console = <<>>
  /\ otel = NoOTel
  /\ app = NoApp
  /\ http = NoHttp
  /\ callerOut = NoCallerOut
  /\ handlers = NoHandlers
  /\ sink = <<>>

OTelStep ==
  \/ \E v \in {"false", "true"} : SetEnv("OTEL_TRACING_ENABLED", v)
  \/ \E startOutcome \in StartOutcomes : InitializeOTel(startOutcome)
  \/ SdkStartSpan(ActiveSpan("abcd1234", "ef56"))
  \/ EndSpan
  \/ \E site \in CallSites, stackAvail \in BOOLEAN :
       CallCreateLogMixin(TRUE, site, stackAvail)

\* initializeOTel, the spans of the SDK it starts and createLogMixin
SpecOTel == InitOTel /\ [][OTelStep]_vars

\* stacks handed to getCallerInfo: none, and every stack of three leading
\* lines followed by at most MaxFrames lines
TestStacks ==
  {NoStack, Stack(<<>>), Stack(<<ErrorLine>>), Stack(<<ErrorLine, GetCallerInfoFrame>>)}
    \cup {Stack(<<ErrorLine, GetCallerInfoFrame, CreateLogMixinFrame>> \o t) :
            t \in LinesUpTo(MaxFrames)}

CallerStep ==
  \/ \E context \in Contexts : CreateChildLogger(context)
  \/ \E v \in Views, method \in LogMethods, site \in CallSites,
        layout \in StackLayouts : LogFrom(v, method, site, layout)

ResolverStep == \E stack \in TestStacks : CallGetCallerInfo(stack)

\* log calls of the logger and its children on either stack layout
SpecCaller == Init /\ [][CallerStep]_vars

\* getCallerInfo as a function of the stack
SpecResolver == Init /\ [][ResolverStep]_vars

\* the modules loaded in an environment that names the service
PackageNameValues == {UNSET, "", "pkg"}
ServiceVersionValues == {UNSET, "", "2.0.0"}
PackageVersionValues == {UNSET, "", "0.1.0"}
IdentityEnvs ==
  {With(EmptyEnv, [OTEL_SERVICE_NAME |-> a, npm_package_name |-> b,
                   OTEL_SERVICE_VERSION |-> c, npm_package_version |-> d]) :
     a \in ServiceNameValues \cup {""}, b \in PackageNameValues,
     c \in ServiceVersionValues, d \in PackageVersionValues}

InitIdentity ==
  /\ env \in IdentityEnvs
  /\ envChanges = 0
  /\ traceApi = NoSpan
  /\ loggers = <<createLogger(NoConfig, env)>>
  /\ children = <<>>
  /\ globalLoggerFactory = [exists |-> TRUE, _logger |-> logger, _config |-> NoConfig]
  /\ factory = NoFactory
  /\ lastCall = NoCall
  /\ lastGet = [global |-> logger, app |-> 0, beforeReset |-> 0]
  /\ mixinOut = NoMixinOut
  /\ calls = <<>>
  /\ console = <<>>
  /\ otel = NoOTel
  /\ app = NoApp
  /\ http = NoHttp
  /\ callerOut = NoCallerOut
  /\ handlers = NoHandlers
  /\ sink = <<>>

IdentityStep ==
  \/ \E v \in ServiceNameValues \cup {""} : SetEnv("OTEL_SERVICE_NAME", v)
  \/ \E v \in PackageNameValues : SetEnv("npm_package_name", v)
  \/ \E startOutcome \in StartOutcomes : LoadIndex(startOutcome)
  \/ StartServer(Num(3000))
  \/ NewLoggerFactory(NoConfig)
  \/ FactoryGetLogger

\* the three places that name the service: logger bindings, tracing
\* resource, startup record
SpecIdentity == InitIdentity /\ [][IdentityStep]_vars

\* the process started with index.ts as its entry point
StartupEnvs ==
  {With(EmptyEnv, [PORT |-> p, NODE_ENV |-> n, OTEL_TRACING_ENABLED |-> t]) :
     p \in PortValues, n \in NodeEnvValues, t \in {UNSET, "false"}}

InitStartup ==
  /\ env \in StartupEnvs
  /\ envChanges = 0
  /\ traceApi = NoSpan
  /\ loggers = <<createLogger(NoConfig, env)>>
  /\ children = <<>>
  /\ globalLoggerFactory = [exists |-> TRUE, _logger |-> logger, _config |-> NoConfig]
  /\ factory = NoFactory
  /\ lastCall = NoCall
  /\ lastGet = [global |-> logger, app |-> 0, beforeReset |-> 0]
  /\ mixinOut = NoMixinOut
  /\ calls = <<>>
  /\ console = <<>>
  /\ otel = NoOTel
  /\ app = NoApp
  /\ http = NoHttp
  /\ callerOut = NoCallerOut
  /\ handlers = NoHandlers
  /\ sink = <<>>

StartupStep ==
  \/ \E startOutcome \in StartOutcomes : LoadIndex(startOutcome)
  \/ Main

\* start of the server from the environment
SpecStartup == InitStartup /\ [][StartupStep]_vars

\* the server in the environments its responses and records depend on
HttpEnvs ==
  {With(EmptyEnv, [NODE_ENV |-> n, LOG_LEVEL |-> l]) :
     n \in NodeEnvValues \cup {"test"}, l \in LogLevelValues}

InitHttp ==
  /\ env \in HttpEnvs
  /\ envChanges = 0
  /\ traceApi = NoSpan
  /\ loggers = <<createLogger(NoConfig, env)>>
  /\ children = <<>>
  /\ globalLoggerFactory = [exists |-> TRUE, _logger |-> logger, _config |-> NoConfig]
  /\ factory = NoFactory
  /\ lastCall = NoCall
  /\ lastGet = [global |-> logger, app |-> 0, beforeReset |-> 0]
  /\ mixinOut = NoMixinOut
  /\ calls = <<>>
  /\ console = <<>>
  /\ otel = NoOTel
  /\ app = NoApp
  /\ http = NoHttp
  /\ callerOut = NoCallerOut
  /\ handlers = NoHandlers
  /\ sink = <<>>

HttpStep ==
  \/ LoadIndex("ok")
  \/ \E req \in Requests : HandleRequest(req)

\* requests served by the application
SpecHttp == InitHttp /\ [][HttpStep]_vars

\* requests served while log calls of the hooks throw
HookRequests ==
  {req \in Requests :
     /\ req.method \in {"GET", "POST"}
     /\ req.path \in {"/health", "/non-existent"}
     /\ req.userAgent = NULL
     /\ req.fault \in {NoFault, Fault(TRUE, "bad input", "VALIDATION")}}

HookStep ==
  \/ LoadIndex("ok")
  \/ \E req \in HookRequests, failing \in Hooks \cup {"none"} :
       HandleRequestFailing(req, failing)

SpecHooks == InitHttp /\ [][HookStep]_vars

\* interleaved request handlers writing to one logger
OrderEnvs ==
  {With(EmptyEnv, [LOG_LEVEL |-> l, OTEL_TRACING_ENABLED |-> t]) :
     l \in LogLevelValues, t \in {UNSET, "false"}}

InitOrder ==
  /\ env \in OrderEnvs
  /\ envChanges = 0
  /\ traceApi = NoSpan
  /\ loggers = <<createLogger(NoConfig, env)>>
  /\ children = <<>>
  /\ globalLoggerFactory = [exists |-> TRUE, _logger |-> logger, _config |-> NoConfig]
  /\ factory = NoFactory
  /\ lastCall = NoCall
  /\ lastGet = [global |-> logger, app |-> 0, beforeReset |-> 0]
  /\ mixinOut = NoMixinOut
  /\ calls = <<>>
  /\ console = <<>>
  /\ otel = NoOTel
  /\ app = NoApp
  /\ http = NoHttp
  /\ callerOut = NoCallerOut
  /\ handlers = NoHandlers
  /\ sink = <<>>

OrderStep ==
  \/ LoadIndex("ok")
  \/ \E h \in Handlers :
       \/ Resume(h)
       \/ HandlerStartSpan(h)
       \/ HandlerEndSpan(h)
       \/ HandlerLog(h)

SpecOrder == InitOrder /\ [][OrderStep]_vars

SingletonStep ==
  \/ \E k \in EnvKeys : \E v \in EnvValues(k) : SetEnv(k, v)
  \/ LoadIndex("ok")
  \/ NewLoggerFactory(NoConfig)
  \/ \E h \in Handlers :
       \/ Resume(h)
       \/ \E which \in {"global", "app"} : HandlerGetLogger(h, which)

\* request handlers asking the factories for the logger
SpecSingleton == Init /\ [][SingletonStep]_vars

ExportedStep ==
  \/ GetLogger
  \/ NewLoggerFactory(NoConfig)
  \/ FactoryGetLogger
  \/ FactoryReset
  \/ \E context \in Contexts : CreateChildLogger(context)
  \/ \E v \in Views :
       Log(v, "info", NoFields, CHOOSE site \in CallSites : site.form = "paren", TRUE)
  \/ \E level \in {"info", "error"} :
       LogWithTrace(level, NoFields, CHOOSE site \in CallSites : site.form = "paren", TRUE)

\* the exports of the logger module next to a factory of the application
SpecExported == Init /\ [][ExportedStep]_vars

\* the process that receives signals
SignalEnvs ==
  {With(EmptyEnv, [LOG_LEVEL |-> l, OTEL_TRACING_ENABLED |-> t]) :
     l \in LogLevelValues, t \in {UNSET, "false"}}

InitSignals ==
  /\ env \in SignalEnvs
  /\ envChanges = 0
  /\ traceApi = NoSpan
  /\ loggers = <<createLogger(NoConfig, env)>>
  /\ children = <<>>
  /\ globalLoggerFactory = [exists |-> TRUE, _logger |-> logger, _config |-> NoConfig]
  /\ factory = NoFactory
  /\ lastCall = NoCall
  /\ lastGet = [global |-> logger, app |-> 0, beforeReset |-> 0]
  /\ mixinOut = NoMixinOut
  /\ calls = <<>>
  /\ console = <<>>
  /\ otel = NoOTel
  /\ app = NoApp
  /\ http = NoHttp
  /\ callerOut = NoCallerOut
  /\ handlers = NoHandlers
  /\ sink = <<>>

SignalStep ==
  \/ \E startOutcome \in StartOutcomes : LoadIndex(startOutcome)
  \/ \E signal \in Signals, b \in ShutdownBehaviours : HandleShutdown(signal, b)
  \/ \E i \in 1..Len(calls) : ShutdownSettles(i)

\* graceful shutdown
SpecSignals == InitSignals /\ [][SignalStep]_vars

ExitStep ==
  \/ \E startOutcome \in StartOutcomes : LoadIndex(startOutcome)
  \/ \E signal \in ProcessSignals, b \in ShutdownBehaviours : DeliverSignal(signal, b)
  \/ \E i \in 1..Len(calls) : SettleBeforeExit(i)
  \/ \E k \in 1..Len(app.signals) : ProcessExit(k)

\* Signals delivered to the process.  The event loop runs every handler
\* that is ready, and sdk.shutdown() settles (it succeeds or fails).
SpecExit ==
  /\ InitSignals
  /\ [][ExitStep]_vars
  /\ WF_vars(\E i \in 1..Len(calls) : SettleBeforeExit(i))
  /\ WF_vars(\E k \in 1..Len(app.signals) : ProcessExit(k))

\* every operation of the modules
Next ==
  \/ TraceStep \/ SpanStep \/ LoggingStep \/ ConfigStep \/ MixinStep \/ ShutdownStep
  \/ OTelStep \/ CallerStep \/ ResolverStep \/ IdentityStep \/ StartupStep
  \/ HttpStep \/ SignalStep \/ HookStep \/ OrderStep
  \/ SingletonStep \/ ExportedStep \/ ExitStep

Spec == Init /\ [][Next]_vars

(***************************************************************************)
(* Properties.                                                             *)
(***************************************************************************)
TraceKeys == {"trace_id", "span_id"}
ContextKeys == UNION {DOMAIN c : c \in Contexts}
Emitted == lastCall.emitted = 1
Rec == lastCall.record

\* whether the level of the instance lets a log method write
Enabled(method, i) == LevelVal(method) >= LevelVal(loggers[i].level)

\* C1: every record emitted by a child logger carries each field of the
\* context the child was created with, with its value, next to the fields
\* the mixin resolved at the call; a record emitted by the parent carries
\* none of the context fields of the children derived from it.
C1_ChildFields ==
  Emitted =>
    /\ lastCall.by.child # 0 =>
         LET b == children[lastCall.by.child].context IN
         /\ \A k \in DOMAIN b : k \in DOMAIN Rec.fields /\ Rec.fields[k] = b[k]
         /\ lastCall.at.kind = "span" =>
              /\ "trace_id" \in DOMAIN Rec.fields
              /\ Rec.fields["trace_id"] = lastCall.at.traceId
    /\ lastCall.by.child = 0 => DOMAIN Rec.fields \cap ContextKeys = {}

C1_Witness ==
  /\ Emitted
  /\ lastCall.by.child # 0
  /\ lastCall.at.kind = "span"
  /\ "request_id" \in DOMAIN Rec.fields
  /\ Rec.fields["request_id"] = "abc"
  /\ "trace_id" \in DOMAIN Rec.fields

\* C2: a record written while a span is active carries the trace and span
\* identifiers of the span active at the moment of that call.
C2_ActiveTrace ==
  (Emitted /\ lastCall.at.kind = "span") =>
    /\ TraceKeys \subseteq DOMAIN Rec.fields
    /\ Rec.fields["trace_id"] = lastCall.at.traceId
    /\ Rec.fields["span_id"] = lastCall.at.spanId

C2_Witness ==
  /\ Emitted
  /\ lastCall.at = ActiveSpan("abcd1234", "ef56")
  /\ Rec.fields["trace_id"] = "abcd1234"
  /\ Rec.fields["span_id"] = "ef56"
  /\ traceApi # lastCall.at

\* C3: a record written while no span is active has neither a trace_id nor
\* a span_id key.
C3_NoTraceNoKeys ==
  (Emitted /\ lastCall.at.kind = "none") => DOMAIN Rec.fields \cap TraceKeys = {}

C3_Witness ==
  /\ Emitted
  /\ lastCall.at.kind = "none"
  /\ lastCall.op = "log"
  /\ DOMAIN Rec.fields \cap TraceKeys = {}
  /\ "caller" \in DOMAIN Rec.fields

\* C4: while the tracing API throws, getTraceContext answers absent, a log
\* call does not throw, and every call whose level is enabled still writes
\* its record, without trace_id and span_id.
C4_TraceFailureDegrades ==
  /\ traceApi \in TraceFailures =>
       /\ ~getTraceContext(traceApi).present
       /\ ~getTraceContext(traceApi).threw
  /\ (lastCall.op \in {"log", "logWithTrace"} /\ lastCall.at \in TraceFailures) =>
       /\ ~lastCall.threw
       /\ Enabled(LevelSwitch(lastCall.level), lastCall.by.inst) => Emitted
       /\ Emitted => DOMAIN Rec.fields \cap TraceKeys = {}

C4_Witness ==
  /\ lastCall.op = "log"
  /\ lastCall.at = SpanContextThrows
  /\ Emitted
  /\ ~lastCall.threw
  /\ "caller" \in DOMAIN Rec.fields

\* C5: the promise of shutdownOTel is never rejected; with a null handle
\* it is resolved at once, sdk.shutdown() is not called and nothing is
\* logged; when sdk.shutdown() throws it is resolved at once with the
\* failure logged; once the promise of sdk.shutdown() has settled it is
\* resolved, with the failure logged after a rejection and the completion
\* logged after a success.
ConsoleOf(i) == {console[j].line : j \in {n \in 1..Len(console) : console[n].call = i}}

C5_ShutdownNeverRejects ==
  \A i \in 1..Len(calls) :
    LET c == calls[i] IN
    /\ c.state \in {"awaiting", "resolved"}
    /\ c.sdk = "null" => c.state = "resolved" /\ c.invoked = 0 /\ ConsoleOf(i) = {}
    /\ c.sdk # "null" =>
         /\ c.invoked = 1
         /\ c.behaviour = "throws" => c.state = "resolved"
         /\ c.state = "awaiting" => ConsoleOf(i) = {}
         /\ c.state = "resolved" =>
              ConsoleOf(i) = IF c.behaviour = "ok" THEN {LogCompleted}
                             ELSE {LogShutdownError}

C5_Witness ==
  \E i \in 1..Len(calls) :
    /\ calls[i].sdk = "sdk"
    /\ calls[i].behaviour = "rejects"
    /\ calls[i].state = "resolved"
    /\ ConsoleOf(i) = {LogShutdownError}

\* C6: getLogger() keeps returning the instance it returned before as long
\* as the factory is not reset, no step changes an instance once built,
\* and what an instance writes is decided by the configuration it was
\* built with (level threshold, caller location, service name), whatever
\* the environment has become since.
InstanceBehaviour ==
  lastCall.op = "log" =>
    LET inst == loggers[lastCall.by.inst] IN
    /\ Emitted <=> LevelVal(lastCall.level) >= LevelVal(inst.config.level)
    /\ Emitted =>
         /\ Rec.fields["service"] = bindings(inst.builtFrom)["service"]
         /\ "caller" \in DOMAIN Rec.fields
              <=> (inst.config.includeLocation /\ lastCall.stackAvail)

SameInstance ==
  /\ \A i \in 1..Len(loggers) : loggers'[i] = loggers[i]
  /\ lastGet'.global = lastGet.global
  /\ (lastGet.app # 0 /\ lastGet'.app # 0) => lastGet'.app = lastGet.app

C6_SingletonKeepsConfig == [](InstanceBehaviour) /\ [][SameInstance]_vars

C6_Witness ==
  /\ lastCall.op = "log"
  /\ Emitted
  /\ lastCall.by.inst = lastGet.global
  /\ lastCall.envChangesAt > 0
  /\ env["OTEL_SERVICE_NAME"] = "svc"
  /\ Rec.fields["service"] = "ts-backend-template"

\* C7 as stated: the instance built by the first getLogger() after a
\* reset() is new, differs from the one returned before the reset, and is
\* configured from the environment of that moment.
C7_ResetRebuildsFromCurrent ==
  [][(lastGet.app = 0 /\ lastGet.beforeReset # 0 /\ lastGet'.app # 0) =>
       /\ lastGet'.app # lastGet.beforeReset
       /\ lastGet'.app = Len(loggers) + 1
       /\ Len(loggers') = Len(loggers) + 1
       /\ loggers'[lastGet'.app].config = createLoggerConfig(env)]_vars

\* C7 amended: the instance built by the first getLogger() after a reset()
\* is new and differs from the one returned before the reset; it is
\* configured from the environment of that moment when the factory was
\* constructed without a configuration, and from the configuration given
\* to the constructor otherwise.
C7_ResetRebuilds ==
  [][(lastGet.app = 0 /\ lastGet.beforeReset # 0 /\ lastGet'.app # 0) =>
       /\ lastGet'.app # lastGet.beforeReset
       /\ lastGet'.app = Len(loggers) + 1
       /\ Len(loggers') = Len(loggers) + 1
       /\ loggers'[lastGet'.app].config =
            IF factory._config = NoConfig THEN createLoggerConfig(env)
            ELSE factory._config
       /\ loggers'[lastGet'.app].builtFrom = env]_vars

C7_Witness ==
  /\ lastGet.app # 0
  /\ lastGet.beforeReset # 0
  /\ lastGet.app # lastGet.beforeReset
  /\ factory._config = NoConfig
  /\ loggers[lastGet.app].config = createLoggerConfig(env)
  /\ loggers[lastGet.app].config # loggers[lastGet.beforeReset].config

\* C8 as stated: a record written while LOG_INCLUDE_LOCATION is "false"
\* has no caller field.
C8_ToggleRemovesCaller ==
  (Emitted /\ lastCall.envChangesAt = envChanges
     /\ env["LOG_INCLUDE_LOCATION"] = "false")
    => "caller" \notin DOMAIN Rec.fields

\* C8 amended: a record written by a logger whose configuration was made
\* while LOG_INCLUDE_LOCATION was "false" has no caller field, with or
\* without an active span.
C8_DisabledAtBuild ==
  (Emitted /\ loggers[lastCall.by.inst].config.source["LOG_INCLUDE_LOCATION"] = "false")
    => "caller" \notin DOMAIN Rec.fields

C8_Witness ==
  /\ Emitted
  /\ loggers[lastCall.by.inst].config.source["LOG_INCLUDE_LOCATION"] = "false"
  /\ lastCall.at.kind = "span"
  /\ lastCall.stackAvail
  /\ "trace_id" \in DOMAIN Rec.fields
  /\ "caller" \notin DOMAIN Rec.fields

\* the level logWithTrace is to log at: the level given when it is one of
\* the four, info otherwise
ExpectedLevel(level) == IF level \in LogMethods THEN level ELSE "info"

\* C9 as stated: every call of logWithTrace writes exactly one record, at
\* the level given or at info for an unrecognized level, and does not throw.
C9_AlwaysOneRecord ==
  lastCall.op = "logWithTrace" =>
    /\ ~lastCall.threw
    /\ Emitted
    /\ Rec.level = ExpectedLevel(lastCall.level)

\* C9 amended: logWithTrace never throws and calls the log method of the
\* level given, or of info for an unrecognized level: it writes exactly one
\* record at that level when the level of the logger enables it, and no
\* record otherwise.
C9_OneRecordWhenEnabled ==
  lastCall.op = "logWithTrace" =>
    /\ ~lastCall.threw
    /\ Emitted <=> Enabled(ExpectedLevel(lastCall.level), logger)
    /\ Emitted => Rec.level = ExpectedLevel(lastCall.level)

C9_Witness ==
  /\ lastCall.op = "logWithTrace"
  /\ lastCall.level = "verbose"
  /\ Emitted
  /\ Rec.level = "info"

C11_AlwaysAbsentAfterDisabled ==
  /\ otel.disabledRan => ~getTraceContext(traceApi).present
  /\ (mixinOut.called /\ mixinOut.tracingOff /\ mixinOut.includeLocation) =>
       DOMAIN mixinOut.result \subseteq {"caller"}

\* C11 amended: once initializeOTel() has run with OTEL_TRACING_ENABLED
\* "false" it has returned null, and as long as no call of initializeOTel,
\* before or after, ran with tracing enabled, getTraceContext() answers
\* absent and what createLogMixin(true) returns has the key caller alone
\* when a location resolves and no key otherwise.
C11_AbsentWhileDisabled ==
  /\ (otel.calls > 0 /\ otel.envAt["OTEL_TRACING_ENABLED"] = "false") =>
       otel.last.sdk = "null"
  /\ (otel.disabledRan /\ ~otel.enabledRan) =>
       /\ ~getTraceContext(traceApi).present
       /\ (mixinOut.called /\ mixinOut.tracingOff /\ mixinOut.includeLocation) =>
            DOMAIN mixinOut.result =
              IF mixinOut.stackAvail THEN {"caller"} ELSE {}

C11_Witness ==
  /\ otel.disabledRan
  /\ otel.last.sdk = "null"
  /\ otel.envAt["OTEL_TRACING_ENABLED"] = "false"
  /\ ~otel.enabledRan
  /\ mixinOut.called
  /\ mixinOut.tracingOff
  /\ mixinOut.result = [caller |-> "index.ts:24"]

\* C12: a call of initializeOTel returns null with the line saying that
\* tracing is disabled exactly when OTEL_TRACING_ENABLED is the string
\* "false"; for every other value (unset, "true", "FALSE", "0", empty) it
\* goes on to start the SDK, and returns the handle when sdk.start()
\* succeeds (null, with the failure logged, when it throws).
C12_DisabledOnlyOnFalse ==
  otel.calls > 0 =>
    LET disabled == otel.envAt["OTEL_TRACING_ENABLED"] = "false"
        said == \E i \in 1..Len(otel.last.lines) : otel.last.lines[i] = LogTracingDisabled
    IN /\ (otel.last.sdk = "null" /\ said) <=> disabled
       /\ said <=> disabled
       /\ disabled => ~otel.last.startCalled /\ otel.last.lines = <<LogTracingDisabled>>
       /\ ~disabled =>
            /\ otel.last.startCalled
            /\ otel.startOutcome = "ok" => otel.last.sdk = "sdk"
            /\ otel.startOutcome = "throws" =>
                 /\ otel.last.sdk = "null"
                 /\ otel.last.lines[Len(otel.last.lines)] = LogInitFailed

C12_Witness ==
  /\ otel.calls > 0
  /\ otel.envAt["OTEL_TRACING_ENABLED"] = "FALSE"
  /\ otel.startOutcome = "ok"
  /\ otel.last.sdk = "sdk"

\* the "<file>:<line>" of a stack line
LocationOf(line) == line.path[Len(line.path)] \o ":" \o line.line
\* frames of logger.ts
LoggerModuleFrames ==
  {GetCallerInfoFrame, CreateLogMixinFrame, MixinArrowFrame, LogWithTraceFrame}

\* C13: the caller field of a record written by a log method of the logger
\* or of a child logger, with the caller location enabled, is the
\* "<file>:<line>" of the application frame that called the log method,
\* and never that of a frame of logger.ts or of the logging library.
C13_CallerIsApplicationFrame ==
  (callerOut.op = "log" /\ Emitted /\ loggers[lastCall.by.inst].includeLocation) =>
    /\ callerOut.result = LocationOf(callerOut.site)
    /\ callerOut.result \notin {LocationOf(f) : f \in LoggerModuleFrames}
    /\ callerOut.result \notin {LocationOf(PinoWriteFrame), LocationOf(PinoLogFrame)}

\* whether getCallerInfo accepts a line: not empty, neither marker, a
\* location at its end
Qualifies(line) ==
  line.form \in {"paren", "at"} /\ ~line.node_modules /\ ~line.pino

\* C14: getCallerInfo() returns absent when no stack is available or no
\* line after the first three qualifies, and otherwise the
\* "<filename>:<line>" of a line of the stack; it never returns a string
\* whose file part is the placeholder "unknown".
C14_NeverPlaceholder ==
  callerOut.op = "getCallerInfo" =>
    LET lines == callerOut.stack.lines
        real == {LocationOf(lines[i]) :
                   i \in {j \in 4..Len(lines) : /\ Qualifies(lines[j])
                                                 /\ Len(lines[j].path) > 0
                                                 /\ lines[j].path[Len(lines[j].path)] # ""}}
    IN /\ callerOut.result = ABSENT \/ callerOut.result \in real
       /\ callerOut.result \notin {"unknown:" \o l.line : l \in FrameKinds}
       /\ (\A j \in 4..Len(lines) : ~Qualifies(lines[j])) => callerOut.result = ABSENT

\* the first of the values that is set and not empty, else the default
RECURSIVE FirstPresent(_, _)
FirstPresent(values, default) ==
  IF values = <<>> THEN default
  ELSE IF Head(values) \notin {UNSET, ""} THEN Head(values)
  ELSE FirstPresent(Tail(values), default)

ServiceNameOf(e) ==
  FirstPresent(<<e["OTEL_SERVICE_NAME"], e["npm_package_name"]>>, "ts-backend-template")
ServiceVersionOf(e) ==
  FirstPresent(<<e["OTEL_SERVICE_VERSION"], e["npm_package_version"]>>, "1.0.0")

\* C15: the service name in the bindings of every logger instance, in the
\* resource of the tracing SDK and in the "Server starting" record is the
\* first of OTEL_SERVICE_NAME, npm_package_name that is set and not empty
\* in the environment it was resolved from, else "ts-backend-template";
\* the version of the bindings and of the resource is likewise the first
\* of OTEL_SERVICE_VERSION, npm_package_version, else "1.0.0"; so the three
\* places agree whenever they resolve from the same environment, a
\* variable set to the empty string counting as not set in all of them.
C15_ServiceIdentity ==
  /\ \A i \in 1..Len(loggers) :
       /\ loggers[i].base["service"] = ServiceNameOf(loggers[i].builtFrom)
       /\ loggers[i].base["version"] = ServiceVersionOf(loggers[i].builtFrom)
  /\ otel.last.startCalled =>
       /\ otel.last.resource.name = ServiceNameOf(otel.envAt)
       /\ otel.last.resource.version = ServiceVersionOf(otel.envAt)
  /\ app.op = "startServer" =>
       LET ev == app.trail[1] IN
       /\ ev.emitted = 1 => ev.fields["service_name"] = ServiceNameOf(app.envAt)
       /\ \A i \in 1..Len(loggers) :
            (ev.emitted = 1 /\ loggers[i].builtFrom = app.envAt) =>
              ev.fields["service_name"] = loggers[i].base["service"]
       /\ (ev.emitted = 1 /\ otel.last.startCalled /\ otel.envAt = app.envAt) =>
            ev.fields["service_name"] = otel.last.resource.name

C15_Witness ==
  /\ app.op = "startServer"
  /\ app.trail[1].emitted = 1
  /\ app.envAt["OTEL_SERVICE_NAME"] = ""
  /\ app.envAt["npm_package_name"] = "pkg"
  /\ app.trail[1].fields["service_name"] = "pkg"
  /\ otel.last.startCalled /\ otel.envAt = app.envAt
  /\ otel.last.resource.name = "pkg"
  /\ \E i \in 1..Len(loggers) :
       loggers[i].builtFrom = app.envAt /\ loggers[i].base["service"] = "pkg"

\* a number a server can listen on
UsablePort(n) == ~n.nan /\ ~n.frac /\ n.int \in 1..65535

\* C20: the port the main block hands to startServer, and startServer to
\* app.listen, is Number(PORT) when that is a usable port number, and the
\* default 3000 for every other value of PORT: unset, empty, not numeric
\* or otherwise malformed.
C20_PortFallsBack ==
  app.op = "main" =>
    LET n == Number(app.arg)
        port == app.trail[Len(app.trail)].port
    IN /\ app.trail[Len(app.trail)].kind = "listen"
       /\ port = IF UsablePort(n) THEN n ELSE Num(3000)

\* the last two exchanges of the server
Exchanges == {x \in {http.last, http.prev} : x # NoExchange}
NotFoundBody == [error |-> "Not Found",
                 message |-> "The requested endpoint does not exist",
                 timestamp |-> Now]

\* C16: of the requests whose handler does not fail, those that are a GET
\* of /, /health or /ready get status 200 and every other one -- another
\* path, or POST, PUT or DELETE of any path, the defined ones included --
\* gets status 404 with the error "Not Found", the message "The requested
\* endpoint does not exist" and a timestamp; no request gets 200 otherwise,
\* and what a request gets does not depend on the requests served before.
C16_RoutingOutcome ==
  /\ \A x \in Exchanges :
       LET defined == x.request.method = "GET" /\ x.request.path \in {"/", "/health", "/ready"}
       IN /\ x.status = 200 => defined
          /\ (defined /\ ~x.request.fault.thrown) => x.status = 200
          /\ ~defined => x.status = 404 /\ x.body = NotFoundBody
  /\ (http.prev # NoExchange /\ http.prev.request = http.last.request) =>
       /\ http.last.status = http.prev.status
       /\ http.last.body = http.prev.body

C16_Witness ==
  /\ http.prev.request.method = "GET" /\ http.prev.request.path = "/health"
  /\ http.prev.status = 200
  /\ http.last.request.method = "POST" /\ http.last.request.path = "/health"
  /\ http.last.status = 404
  /\ http.last.body = NotFoundBody

\* C17: an error that reaches the error handler with a code other than
\* NOT_FOUND gets status 500 and the error "Internal Server Error"; the
\* message is that of the error when NODE_ENV is "development" and the
\* error is an Error, and "Something went wrong" in every other case, so
\* that outside development two failures with different messages get the
\* same body.
Failed(x) == x.request.fault.thrown /\ x.request.fault.code # "NOT_FOUND"

C19_LogThenShutdownOnce ==
  /\ app.op = "handleShutdown" =>
       /\ Len(app.trail) = 2
       /\ app.trail[1].kind = "log"
       /\ app.trail[1].level = "info"
       /\ app.trail[1].msg = app.arg \o " received, shutting down gracefully"
       /\ app.trail[1].emitted = 1 <=> Enabled("info", logger)
       /\ app.trail[2] = ShutdownEvent(otel.last.sdk)
  /\ Len(calls) = app.shutdowns
  /\ \A i \in 1..Len(calls) : calls[i].sdk = otel.last.sdk /\ calls[i].invoked <= 1

C19_Witness ==
  /\ app.op = "handleShutdown"
  /\ app.arg = "CUSTOM_SIGNAL"
  /\ app.shutdowns = 2
  /\ app.trail[1].emitted = 1
  /\ app.trail[1].msg = "CUSTOM_SIGNAL received, shutting down gracefully"
  /\ app.trail[2] = ShutdownEvent("sdk")
  /\ calls[2].sdk = "sdk"

\* C21: whenever initializeOTel constructs the SDK, the span exporters are
\* not empty: a console exporter when OTEL_CONSOLE_EXPORTER is "true" or
\* NODE_ENV is "development", an OTLP exporter when the endpoint variable is
\* set (to a non-empty value); when neither applies there is exactly one
\* console exporter and the warning is written, and only then.
ExportersOf(r) == {r.exporters[i] : i \in 1..Len(r.exporters)}

C21_ExportersNeverEmpty ==
  (otel.calls > 0 /\ otel.last.startCalled) =>
    LET e == otel.envAt
        r == otel.last
        console_ == e["OTEL_CONSOLE_EXPORTER"] = "true" \/ e["NODE_ENV"] = "development"
        otlp == e["OTEL_EXPORTER_OTLP_TRACES_ENDPOINT"] \notin {UNSET, ""}
        warned == \E i \in 1..Len(r.lines) : r.lines[i] = LogNoExporters
    IN /\ Len(r.exporters) >= 1
       /\ Cardinality(ExportersOf(r)) = Len(r.exporters)
       /\ (console_ \/ otlp) =>
            /\ ("console" \in ExportersOf(r)) <=> console_
            /\ ("otlp" \in ExportersOf(r)) <=> otlp
            /\ ~warned
       /\ ~(console_ \/ otlp) => (r.exporters = <<"console">> /\ warned)

\* an SDK built with no exporter configured, in production with the endpoint
\* variable set to the empty string
C21_Witness ==
  /\ otel.calls > 0
  /\ otel.last.startCalled
  /\ otel.envAt["NODE_ENV"] = "production"
  /\ otel.envAt["OTEL_EXPORTER_OTLP_TRACES_ENDPOINT"] = ""
  /\ otel.envAt["OTEL_CONSOLE_EXPORTER"] = UNSET
  /\ otel.last.exporters = <<"console">>

\* C22: initializeOTel never throws; when sdk.start() throws, the failure
\* is written to the console and null is returned, index.ts is loaded with
\* that null handle, and each shutdownOTel call with a null handle resolves
\* at once without a call of sdk.shutdown() and without a console line.
C22_StartFailureGivesNull ==
  /\ otel.calls > 0 => ~otel.last.threw
  /\ (otel.calls > 0 /\ otel.last.startCalled /\ otel.startOutcome = "throws") =>
       /\ otel.last.sdk = "null"
       /\ Len(otel.last.lines) >= 1
       /\ otel.last.lines[Len(otel.last.lines)] = LogInitFailed
       /\ app.loaded /\ app.sdk = "null"
  /\ \A i \in 1..Len(calls) :
       calls[i].sdk = "null" =>
         /\ calls[i].state = "resolved"
         /\ calls[i].invoked = 0
         /\ \A j \in 1..Len(console) : console[j].call # i

\* index.ts loaded while sdk.start() threw, then shut down by a signal
C22_Witness ==
  /\ otel.last.startCalled
  /\ otel.startOutcome = "throws"
  /\ app.loaded
  /\ app.op = "handleShutdown"
  /\ Len(calls) >= 1
  /\ calls[1].sdk = "null"
  /\ calls[1].state = "resolved"

\* C23: when the log call of a hook (onRequest, onAfterHandle, onError)
\* throws while a request is served, the request still receives the
\* response its route would have produced: the status and the body of the
\* same request served without the failure.
HookRan(x) ==
  \E i \in 1..Len(x.trail) : x.trail[i].kind = "log" /\ "threw" \in DOMAIN x.trail[i]

C23_LoggingFailureKeepsResponse ==
  \A x \in {http.last, http.prev} :
    (x.failing \in Hooks /\ HookRan(x)) =>
      LET plain == handle(x.request, x.requestId, x.envAt)
      IN x.status = plain.status /\ x.body = plain.body

\* a request of GET /health served while the log call of onRequest throws
C23_Reached ==
  /\ http.last.failing = "onRequest"
  /\ HookRan(http.last)
  /\ http.last.request.path = "/health"
  /\ http.last.request.method = "GET"
  /\ http.last.status = 500

\* C24: the records of one handler are in the sink in the order of its log
\* calls; each carries the identifiers of the span active in the context of
\* its handler at the call (none when no span was active), and never the
\* identifiers or the bound fields of the other handler.
SinkOf(h) == SelectSeq(sink, LAMBDA x : x.by = h)
TraceIdOf(x) ==
  IF "trace_id" \in DOMAIN x.record.fields THEN x.record.fields.trace_id ELSE ABSENT

C24_OrderAndOwnContext ==
  /\ \A h \in Handlers :
       /\ \A i \in 1..Len(SinkOf(h)) :
            /\ SinkOf(h)[i].record.fields.n = SinkOf(h)[i].n
            /\ i > 1 => SinkOf(h)[i - 1].n < SinkOf(h)[i].n
       /\ Enabled("info", logger) => Len(SinkOf(h)) = handlers.of[h].pc
  /\ \A i \in 1..Len(sink) :
       LET x == sink[i]
           f == x.record.fields
       IN /\ IF x.context.kind = "span"
               THEN f.trace_id = x.context.traceId /\ f.span_id = x.context.spanId
               ELSE DOMAIN f \cap TraceKeys = {}
          /\ "trace_id" \in DOMAIN f => f.trace_id = HandlerSpan(x.by).traceId
          /\ "request_id" \in DOMAIN f => f.request_id = x.by
          /\ x.n % 2 = 1 => "request_id" \in DOMAIN f

\* the two handlers interleaved, each under its own span, and a handler
\* whose span ended between its two calls
C24_Witness ==
  /\ Len(sink) = 4
  /\ sink[1].by = 1 /\ sink[2].by = 2 /\ sink[3].by = 1 /\ sink[4].by = 2
  /\ TraceIdOf(sink[1]) = "trace-1"
  /\ TraceIdOf(sink[2]) = "trace-2"
  /\ TraceIdOf(sink[3]) = ABSENT
  /\ TraceIdOf(sink[4]) = "trace-2"

\* C25: however the request handlers interleave, the global factory never
\* builds a second instance: every getLogger() call of a handler returns
\* the instance built at module load; a factory of the application that
\* has no instance yet builds one at the first call and every handler
\* receives that one (no reset happens here).
C25_OneSingleton ==
  /\ globalLoggerFactory._logger = logger
  /\ \A h \in Handlers :
       /\ handlers.of[h].got.global \in {0, logger}
       /\ handlers.of[h].got.app \in {0, factory._logger}
  /\ Len(loggers) = 1 + (IF factory._logger # 0 THEN 1 ELSE 0)
  /\ factory._logger \in {0, 2}

\* both handlers have asked both factories
C25_Witness ==
  /\ \A h \in Handlers :
       /\ handlers.of[h].got.global = logger
       /\ handlers.of[h].got.app = 2
  /\ envChanges = 1

\* C26: with an active span whose context has the all-zero identifiers,
\* createLogMixin returns trace_id and span_id equal to those strings, as
\* for any other active span.
C26_InvalidContextNotFiltered ==
  (mixinOut.called /\ mixinOut.api = InvalidSpan) =>
    /\ ~mixinOut.threw
    /\ DOMAIN mixinOut.result \cap TraceKeys = TraceKeys
    /\ mixinOut.result["trace_id"] = "00000000000000000000000000000000"
    /\ mixinOut.result["span_id"] = "0000000000000000"

C26_Witness ==
  /\ mixinOut.called
  /\ mixinOut.api = InvalidSpan
  /\ mixinOut.includeLocation
  /\ mixinOut.stackAvail
  /\ "caller" \in DOMAIN mixinOut.result
  /\ mixinOut.result["trace_id"] = "00000000000000000000000000000000"

\* C27: for every stack, getCallerInfo returns the result for the first
\* line at index 3 or later (counted from 0) that carries neither marker
\* and matches a location pattern: the final segment of its path, a colon
\* and its line number.  Lines without a location are passed over; the
\* result is absent when no line qualifies or no stack is available.
FirstQualifying(lines) ==
  LET q == {j \in 4..Len(lines) : Qualifies(lines[j])}
  IN IF q = {} THEN 0 ELSE CHOOSE j \in q : \A k \in q : j <= k

C27_FirstQualifyingLine ==
  callerOut.op = "getCallerInfo" =>
    LET lines == callerOut.stack.lines
        first == FirstQualifying(lines)
    IN IF ~callerOut.stack.avail \/ first = 0
         THEN callerOut.result = ABSENT
         ELSE callerOut.result = LocationOf(lines[first])

\* a stack whose first qualifying line, behind a line without a location,
\* has a path that ends in '/'
C27_Reached ==
  /\ callerOut.op = "getCallerInfo"
  /\ Len(callerOut.stack.lines) = 6
  /\ callerOut.stack.lines[4] = NoLocationLine
  /\ callerOut.stack.lines[5] = SlashPathLine
  /\ callerOut.result = "unknown:12"

\* C28: in every state the exported `logger`, the instance getLogger()
\* returns and the instance createChildLogger and logWithTrace use are the
\* one instance the global factory built at module load; building and
\* resetting another LoggerFactory changes none of them.
C28_OneExportedInstance ==
  /\ globalLoggerFactory._logger = logger
  /\ lastGet.global = logger
  /\ \A c \in 1..Len(children) : children[c].parent = logger
  /\ lastCall.op = "logWithTrace" => lastCall.by = View(logger, 0)
  /\ lastCall.op = "getLogger" => lastCall.by = View(logger, 0)
  /\ factory._logger # logger
  /\ lastGet.app # logger /\ lastGet.beforeReset # logger

\* the application's factory built an instance, was reset and built
\* another, and the exports were used afterwards
C28_Witness ==
  /\ lastGet.beforeReset = 2
  /\ factory._logger = 3
  /\ Len(children) = 2
  /\ lastCall.op = "logWithTrace"
  /\ lastCall.emitted = 1

\* C29: once SIGTERM or SIGINT is delivered the process eventually calls
\* process.exit(0), and the handler that makes the call makes it after the
\* shutdownOTel promise of its own signal has settled, whether
\* sdk.shutdown() succeeded or failed or the handle is null.
ExitedAfterOwnShutdown ==
  app.exit.exited =>
    /\ app.exit.code = 0
    /\ app.exit.by \in 1..Len(app.signals)
    /\ app.signals[app.exit.by].signal \in ProcessSignals
    /\ app.signals[app.exit.by].awaits # {}
    /\ \A i \in app.signals[app.exit.by].awaits : calls[i].state # "awaiting"

C29_EventuallyExits ==
  /\ []ExitedAfterOwnShutdown
  /\ (Len(app.signals) > 0) ~> app.exit.exited

\* the process exited for a signal whose sdk.shutdown() rejected
C29_Witness ==
  /\ app.exit.exited
  /\ app.signals[app.exit.by].signal = "SIGINT"
  /\ \E i \in app.signals[app.exit.by].awaits :
       /\ calls[i].behaviour = "rejects"
       /\ calls[i].state = "resolved"
       /\ \E j \in 1..Len(console) : console[j] = [call |-> i, line |-> LogShutdownError]

\* C30: no state marks a shutdown as under way: every delivered signal
\* starts its own shutdownOTel call with the handle of index.ts, so k
\* signals invoke sdk.shutdown() of that handle k times; the process exits
\* when the promise of one handler has settled, whatever the state of the
\* others.
C30_OneShutdownPerSignal ==
  /\ Len(calls) = Len(app.signals)
  /\ \A k \in 1..Len(app.signals) : app.signals[k].awaits = {k}
  /\ \A i \in 1..Len(calls) :
       /\ calls[i].sdk = app.sdk
       /\ calls[i].invoked = (IF app.sdk = "null" THEN 0 ELSE 1)
  /\ app.exit.exited => calls[app.exit.by].state = "resolved"

\* three signals: the process exited on the second while the shutdowns of
\* the first and the third were pending
C30_Witness ==
  /\ Len(app.signals) = 3
  /\ app.sdk = "sdk"
  /\ \A i \in 1..3 : calls[i].invoked = 1
  /\ app.exit.exited
  /\ app.exit.by = 2
  /\ calls[1].state = "awaiting"
  /\ calls[3].state = "awaiting"

====
